---- MODULE Spec2Model ----
(***************************************************************************)
(* Replay session, multi-timeframe synchronization and stream publisher   *)
(* of src/backend/replay_server.py, with the request layer of             *)
(* src/backend/app.py that guards it.                                     *)
(*                                                                         *)
(* Conventions.  Positions are 0-based as in the code (Iloc).  A candle   *)
(* is the record [timestamp |-> seconds since epoch]; the replay code     *)
(* copies Open/High/Low/Close/Volume verbatim into the snapshots and      *)
(* never branches on them, so they are not carried here.  A speed is      *)
(* held in tenths of a second (1.0 s is 10, 0.5 s is 5).  A calendar date *)
(* is the day number since the epoch.  An optional value is <<>> (None)   *)
(* or <<v>>.  A dict is a function whose DOMAIN is its key set.           *)
(***************************************************************************)
EXTENDS Integers, Sequences, FiniteSets, TLC

VARIABLES
    loaded_data,          \* data_processor.loaded_data: timeframe -> series
    is_playing,
    current_date,
    current_index,
    total_candles,
    speed,
    subscribers,
    timeframe_data,       \* dict timeframe -> series of the replayed date
    timeframe_indices,    \* dict timeframe -> cursor
    current_m1_timestamp,
    replay_data,          \* None, or the M1 series of the replayed date
    pc,                   \* position of the stream generator
    events,               \* events the current stream has yielded so far
    last,                 \* the operation that ran last, its argument and result
    gens,                 \* stream -> its generator, statement by statement
    pending_seek,         \* target of a successful seek no tick has read yet, or -1
    df,                   \* the series handed to the gap detector
    fvgs,                 \* None, or what the gap detector returned for df
    continuity,           \* None, or what check_continuity returned for df
    filled                \* None, or what fill_missing_candles returned for df

vars == <<loaded_data, is_playing, current_date, current_index, total_candles,
          speed, subscribers, timeframe_data, timeframe_indices,
          current_m1_timestamp, replay_data, pc, events, last, gens,
          pending_seek, df, fvgs, continuity, filled>>

\* the generators that run statement by statement, and their bookkeeping
threads == <<gens, pending_seek>>

\* the series a data route analyses, with what the gap detector and the
\* continuity checker returned for it
detector == <<df, fvgs, continuity, filled>>

session == <<is_playing, current_date, current_index, total_candles, speed,
             subscribers, timeframe_data, timeframe_indices,
             current_m1_timestamp, replay_data>>

-----------------------------------------------------------------------------
(* Bounds of the model *)

\* M1 slots per day in the stores of Spec
MaxCtlM1 == 2
\* M1 slots in the stores of SpecSync and SpecPlayback
MaxSyncM1 == 6
\* M5 slots in the stores of SpecSync and SpecPlayback
MaxSyncM5 == 4
\* events one stream may yield under Spec and SpecSync
MaxEvents == 1
\* heartbeats one stream may yield under SpecPlayback
MaxHeartbeats == 1

\* M1 candles of the day the concurrent specifications replay
MaxRaceM1 == 2

\* events after which a generator starts no further iteration
MaxRaceEvents == 1

\* candles of the longest series handed to the gap detector
MaxFvgLen == 4

\* candles of the longest series of the clearance search: a gap at index 2,
\* its max_lookback candles, and one beyond them
MaxLongLen == 44

\* candles of the longest series handed to the continuity checker
MaxContLen == 5

\* candles of a series handed to fill_missing_candles
MaxFillLen == 3

-----------------------------------------------------------------------------
(* Program constants *)

TIMEFRAMES == <<"M1", "M5", "M15", "H1", "H4", "D1">>

CoarseTimeframes == <<"M5", "M15", "H1", "H4", "D1">>

AllowedSpeeds == {5, 10, 20, 30, 50, 100}

DefaultSpeed == 10

SecondsPerDay == 86400

TimeframeDurationSeconds(timeframe) ==
    CASE timeframe = "M1"  -> 60
      [] timeframe = "M5"  -> 300
      [] timeframe = "M15" -> 900
      [] timeframe = "H1"  -> 3600
      [] timeframe = "H4"  -> 14400
      [] timeframe = "D1"  -> 86400
      [] OTHER             -> 60

-----------------------------------------------------------------------------
(* Values *)

None == <<>>

Some(v) == <<v>>

EmptyDict == [k \in {} |-> 0]

DictSet(d, k, v) == [x \in (DOMAIN d) \cup {k} |-> IF x = k THEN v ELSE d[x]]

DictGet(d, k, default) == IF k \in DOMAIN d THEN d[k] ELSE default

Iloc(rows, i) == rows[i + 1]

Max(a, b) == IF a >= b THEN a ELSE b

Min(a, b) == IF a <= b THEN a ELSE b

RECURSIVE InsertByTimestamp(_, _)
InsertByTimestamp(rows, c) ==
    IF rows = <<>> THEN <<c>>
    ELSE IF c.timestamp < rows[Len(rows)].timestamp
         THEN Append(InsertByTimestamp(SubSeq(rows, 1, Len(rows) - 1), c),
                     rows[Len(rows)])
         ELSE Append(rows, c)

RECURSIVE SortValuesTimestamp(_)
SortValuesTimestamp(rows) ==
    IF rows = <<>> THEN <<>>
    ELSE InsertByTimestamp(SortValuesTimestamp(SubSeq(rows, 1, Len(rows) - 1)),
                           rows[Len(rows)])

DateOf(timestamp) == timestamp \div SecondsPerDay

OnDate(c, date) == DateOf(c.timestamp) = date

\* the series holding one candle per element of a set of timestamps, ascending
RECURSIVE SeriesOf(_)
SeriesOf(S) ==
    IF S = {} THEN <<>>
    ELSE LET m == CHOOSE x \in S : \A y \in S : y <= x
         IN Append(SeriesOf(S \ {m}), [timestamp |-> m])

-----------------------------------------------------------------------------
(* Series stores: what the ingestion left in data_processor.loaded_data *)

\* no H4 file
Store(m1, m5, m15, d1) ==
    [tf \in {"M1", "M5", "M15", "H1", "D1"} |->
        CASE tf = "M1"  -> SeriesOf(m1)
          [] tf = "M5"  -> SeriesOf(m5)
          [] tf = "M15" -> SeriesOf(m15)
          [] tf = "H1"  -> SeriesOf({0})
          [] tf = "D1"  -> SeriesOf(d1)]

\* two days: M1 any subset of a 3-minute grid on day 0 and of one candle on
\* day 1; M5 and D1 on both days, M15 and H1 on day 0 only
ControlStores ==
    { Store(m1, {0, SecondsPerDay}, {0}, {0, SecondsPerDay}) :
        m1 \in SUBSET ({k * 180 : k \in 0..(MaxCtlM1 - 1)} \cup {SecondsPerDay}) }

\* one day; a complete M1 series, every subset of the M5 and M15 grids
SyncStores ==
    { Store({k * 180 : k \in 0..(MaxSyncM1 - 1)}, m5, m15, {0}) :
        m5 \in SUBSET {k * 300 : k \in 0..(MaxSyncM5 - 1)},
        m15 \in SUBSET {0, 900} }

\* one day; M1 series with missing candles, every subset of the M5 grid
\* one day with MaxRaceM1 M1 candles and the coarser candles over them
RaceStores ==
    {Store({k * 180 : k \in 0..(MaxRaceM1 - 1)}, {0, 300}, {0}, {0})}

PlaybackStores ==
    { Store(m1, m5, {0, 900}, {0}) :
        m1 \in SUBSET {k * 180 : k \in 0..(MaxSyncM1 - 1)},
        m5 \in SUBSET {k * 300 : k \in 0..(MaxSyncM5 - 1)} }

DateInputs == {None, Some(0), Some(1), Some(2)}

SpeedInputs == {30, 70}

SeekInputs == (-1)..MaxCtlM1

\* the requests to /api/replay/stream that can be served at the same time
Streams == {"a", "b"}

\* a generator that does not exist: pc is the statement it is at, events
\* what it has yielded; current_timestamp, synchronized_candles and
\* next_index are its locals.  The other fields are bookkeeping: index is
\* the primary cursor its loop condition saw last, after_stop tells whether
\* stop_replay ran while it was in its loop ("stopped"), whether its loop condition
\* held after that ("iterating") and whether it then yielded a candle
\* ("candle"), advanced whether it has moved the primary cursor of the
\* session loaded now, sleep the argument of the time.sleep call of line 252
\* it is in, or -1.
NoGen ==
    [pc |-> "none", events |-> <<>>, current_timestamp |-> None,
     synchronized_candles |-> EmptyDict, next_index |-> -1, message |-> "",
     index |-> -1, after_stop |-> "no", advanced |-> FALSE, sleep |-> -1]

-----------------------------------------------------------------------------
(* Bookkeeping of the operation that ran last *)

\* arg: the index, date or speed the operation was given; given_speed: the
\* speed a start_replay call was given, else -1; seek_before: for a tick, the
\* target of the successful seek that ran right before it, else -1
DidWith(op, status, arg, given_speed) ==
    [op |-> op, status |-> status, arg |-> arg, given_speed |-> given_speed,
     seek_before |-> IF op = "tick" /\ last.op = "seek" /\ last.status = "seeked"
                     THEN last.arg ELSE -1]

Did(op, status, arg) == DidWith(op, status, arg, -1)

-----------------------------------------------------------------------------
(* ReplayServer *)

InitWith(stores) ==
    /\ loaded_data \in stores
    /\ is_playing = FALSE
    /\ current_date = None
    /\ current_index = 0
    /\ total_candles = 0
    /\ speed = DefaultSpeed
    /\ subscribers = <<>>
    /\ timeframe_data = EmptyDict
    /\ timeframe_indices = EmptyDict
    /\ current_m1_timestamp = None
    /\ replay_data = None
    /\ pc = "none"
    /\ events = <<>>
    /\ last = [op |-> "init", status |-> "", arg |-> 0, given_speed |-> -1,
               seek_before |-> -1]
    /\ gens = [s \in Streams |-> NoGen]
    /\ pending_seek = -1

\* no series has been handed to the gap detector or the continuity checker
DetectorIdle ==
    df = <<>> /\ fvgs = None /\ continuity = None /\ filled = None

Init == InitWith(ControlStores) /\ DetectorIdle

LoadDateData(date, timeframe) ==
    IF timeframe \in DOMAIN loaded_data
    THEN LET date_filtered ==
                 SelectSeq(loaded_data[timeframe], LAMBDA c : OnDate(c, date))
         IN IF Len(date_filtered) > 0
            THEN Some(SortValuesTimestamp(date_filtered))
            ELSE None
    ELSE None

\* the fields stop_replay writes, as they are now
SessionFields ==
    [is_playing |-> is_playing,
     current_index |-> current_index,
     current_date |-> current_date,
     replay_data |-> replay_data,
     timeframe_data |-> timeframe_data,
     timeframe_indices |-> timeframe_indices,
     current_m1_timestamp |-> current_m1_timestamp,
     subscribers |-> subscribers]

StopReplayKeepingCursors ==
    [is_playing |-> FALSE,
     current_index |-> 0,
     current_date |-> None,
     replay_data |-> None,
     timeframe_data |-> EmptyDict,
     timeframe_indices |-> timeframe_indices,
     current_m1_timestamp |-> None,
     subscribers |-> <<>>]

\* the fields stop_replay writes, as it leaves them
StopReplayResult ==
    [is_playing |-> FALSE,
     current_index |-> 0,
     current_date |-> None,
     replay_data |-> None,
     timeframe_data |-> EmptyDict,
     timeframe_indices |-> EmptyDict,
     current_m1_timestamp |-> None,
     subscribers |-> <<>>]

StopReplay ==
    /\ is_playing' = StopReplayResult.is_playing
    /\ current_index' = StopReplayResult.current_index
    /\ current_date' = StopReplayResult.current_date
    /\ replay_data' = StopReplayResult.replay_data
    /\ timeframe_data' = StopReplayResult.timeframe_data
    /\ timeframe_indices' = StopReplayResult.timeframe_indices
    /\ current_m1_timestamp' = StopReplayResult.current_m1_timestamp
    /\ subscribers' = StopReplayResult.subscribers
    /\ last' = Did("stop", "stopped", 0)
    /\ UNCHANGED <<loaded_data, total_candles, speed, pc, events>>

StartWithoutStop == SessionFields

\* start_replay begins by calling stop_replay
StoppedForStart == StopReplayResult

RECURSIVE LoadTimeframes(_, _, _)
LoadTimeframes(acc, date, i) ==
    IF i > Len(TIMEFRAMES) THEN acc
    ELSE LET timeframe == TIMEFRAMES[i]
             got == LoadDateData(date, timeframe)
         IN IF got # None /\ Len(got[1]) > 0
            THEN LoadTimeframes(
                     [data |-> DictSet(acc.data, timeframe,
                                       SortValuesTimestamp(got[1])),
                      indices |-> DictSet(acc.indices, timeframe, 0),
                      loaded |-> Append(acc.loaded, timeframe)],
                     date, i + 1)
            ELSE LoadTimeframes(acc, date, i + 1)

HasM1(loaded_timeframes) ==
    \E i \in 1..Len(loaded_timeframes) : loaded_timeframes[i] = "M1"

StartReplay(date, spd) ==
    LET s0 == StoppedForStart
        ld == LoadTimeframes([data |-> s0.timeframe_data,
                              indices |-> s0.timeframe_indices,
                              loaded |-> <<>>], date, 1)
    IN /\ timeframe_data' = ld.data
       /\ timeframe_indices' = ld.indices
       /\ current_m1_timestamp' = s0.current_m1_timestamp
       /\ subscribers' = s0.subscribers
       /\ IF ~HasM1(ld.loaded)
          THEN /\ is_playing' = s0.is_playing
               /\ current_index' = s0.current_index
               /\ current_date' = s0.current_date
               /\ replay_data' = s0.replay_data
               /\ UNCHANGED <<speed, total_candles>>
               /\ last' = DidWith("start", "error", date, spd)
          ELSE /\ current_date' = Some(date)
               /\ speed' = spd
               /\ current_index' = 0
               /\ total_candles' = Len(ld.data["M1"])
               /\ is_playing' = FALSE
               /\ replay_data' = Some(ld.data["M1"])
               /\ last' = DidWith("start", "ready", date, spd)
       /\ UNCHANGED <<loaded_data, pc, events>>

NotLoaded == replay_data = None

PlayRefusedNever == FALSE

PlayRefused == NotLoaded

PlayReplay ==
    /\ IF PlayRefused
       THEN /\ UNCHANGED is_playing
            /\ last' = Did("play", "error", 0)
       ELSE /\ is_playing' = TRUE
            /\ last' = Did("play", "playing", 0)
    /\ UNCHANGED <<loaded_data, current_date, current_index, total_candles,
                   speed, subscribers, timeframe_data, timeframe_indices,
                   current_m1_timestamp, replay_data, pc, events>>

PausedPlayingKept == is_playing

\* self.is_playing = False
PausedPlaying == FALSE

PauseReplay ==
    /\ is_playing' = PausedPlaying
    /\ last' = Did("pause", "paused", current_index)
    /\ UNCHANGED <<loaded_data, current_date, current_index, total_candles,
                   speed, subscribers, timeframe_data, timeframe_indices,
                   current_m1_timestamp, replay_data, pc, events>>

SetSpeed(spd) ==
    /\ speed' = spd
    /\ last' = Did("set_speed", "speed_updated", spd)
    /\ UNCHANGED <<loaded_data, is_playing, current_date, current_index,
                   total_candles, subscribers, timeframe_data,
                   timeframe_indices, current_m1_timestamp, replay_data, pc,
                   events>>

GetStatus ==
    [is_playing |-> is_playing,
     current_date |-> current_date,
     current_index |-> current_index,
     total_candles |-> total_candles,
     speed |-> speed,
     loaded_timeframes |-> DOMAIN timeframe_data,
     current_m1_timestamp |-> current_m1_timestamp,
     timeframe_indices |-> timeframe_indices]

SeekInRangeUnbounded(index, rows) == 0 <= index

SeekInRangeInclusive(index, rows) == 0 <= index /\ index <= Len(rows)

SeekInRange(index, rows) == 0 <= index /\ index < Len(rows)

SeekToIndex(index) ==
    /\ IF NotLoaded
       THEN /\ UNCHANGED current_index
            /\ last' = Did("seek", "error", index)
       ELSE IF SeekInRange(index, replay_data[1])
            THEN /\ current_index' = index
                 /\ last' = Did("seek", "seeked", index)
            ELSE /\ UNCHANGED current_index
                 /\ last' = Did("seek", "error", index)
    /\ UNCHANGED <<loaded_data, is_playing, current_date, total_candles,
                   speed, subscribers, timeframe_data, timeframe_indices,
                   current_m1_timestamp, replay_data, pc, events>>

-----------------------------------------------------------------------------
(* Multi-timeframe synchronization *)

SnapshotWithoutIndex(timeframe, candle, index) ==
    [timeframe |-> timeframe, timestamp |-> candle.timestamp, index |-> 0]

Snapshot(timeframe, candle, index) ==
    [timeframe |-> timeframe, timestamp |-> candle.timestamp, index |-> index]

WindowLowNarrow(cursor) == Max(0, cursor - 1)

\* the first position of the search window around a cursor
WindowLow(cursor) == Max(0, cursor - 2)

\* one past the last position of the search window around a cursor
WindowHigh(rows, cursor) == Min(Len(rows), cursor + 3)

ContainsClosed(candle_timestamp, tf_duration, m1_timestamp) ==
    candle_timestamp <= m1_timestamp /\ m1_timestamp <= candle_timestamp + tf_duration

Contains(candle_timestamp, tf_duration, m1_timestamp) ==
    candle_timestamp <= m1_timestamp /\ m1_timestamp < candle_timestamp + tf_duration

\* the for loop over the window, from position i on
RECURSIVE SearchWindow(_, _, _, _, _, _, _)
SearchWindow(rows, tf_duration, m1_timestamp, i, hi, best_index, best_candle) ==
    IF i >= hi
    THEN [best_index |-> best_index, best_candle |-> best_candle]
    ELSE LET candle == Iloc(rows, i)
             candle_timestamp == candle.timestamp
         IN IF Contains(candle_timestamp, tf_duration, m1_timestamp)
            THEN [best_index |-> i, best_candle |-> Some(candle)]
            ELSE IF /\ candle_timestamp <= m1_timestamp
                    /\ (best_candle = None
                        \/ candle_timestamp > best_candle[1].timestamp)
                 THEN SearchWindow(rows, tf_duration, m1_timestamp, i + 1, hi,
                                   i, Some(candle))
                 ELSE SearchWindow(rows, tf_duration, m1_timestamp, i + 1, hi,
                                   best_index, best_candle)

FindBestEarliest(rows, timeframe, cursor, m1_timestamp) ==
    LET window == WindowLow(cursor)..(WindowHigh(rows, cursor) - 1)
        inside == {i \in window :
                      Contains(Iloc(rows, i).timestamp,
                               TimeframeDurationSeconds(timeframe),
                               m1_timestamp)}
        before == {i \in window : Iloc(rows, i).timestamp <= m1_timestamp}
        first(S) == CHOOSE i \in S : \A j \in S : i <= j
    IN IF inside # {}
       THEN [best_index |-> first(inside),
             best_candle |-> Some(Iloc(rows, first(inside)))]
       ELSE IF before # {}
            THEN [best_index |-> first(before),
                  best_candle |-> Some(Iloc(rows, first(before)))]
            ELSE [best_index |-> cursor, best_candle |-> None]

FindBest(rows, timeframe, cursor, m1_timestamp) ==
    SearchWindow(rows, TimeframeDurationSeconds(timeframe), m1_timestamp,
                 WindowLow(cursor), WindowHigh(rows, cursor), cursor, None)

\* the loop over the coarser timeframes, from the i-th on
RECURSIVE SyncCoarse(_, _, _)
SyncCoarse(acc, m1_timestamp, i) ==
    IF i > Len(CoarseTimeframes) THEN acc
    ELSE LET timeframe == CoarseTimeframes[i]
         IN IF timeframe \notin DOMAIN timeframe_data
            THEN SyncCoarse(acc, m1_timestamp, i + 1)
            ELSE LET tf_data == timeframe_data[timeframe]
                     cursor == DictGet(acc.indices, timeframe, 0)
                     best == FindBest(tf_data, timeframe, cursor, m1_timestamp)
                 IN IF best.best_candle = None
                    THEN SyncCoarse(acc, m1_timestamp, i + 1)
                    ELSE SyncCoarse(
                             [indices |->
                                  IF best.best_index # cursor
                                  THEN DictSet(acc.indices, timeframe,
                                               best.best_index)
                                  ELSE acc.indices,
                              candles |->
                                  DictSet(acc.candles, timeframe,
                                          Snapshot(timeframe, best.best_candle[1],
                                                   best.best_index))],
                             m1_timestamp, i + 1)

\* _get_synchronized_candles on the cursors `indices`: the cursors it leaves
\* and the mapping it returns
GetSynchronizedCandles(m1_timestamp, indices) ==
    LET m1_index == DictGet(indices, "M1", 0)
        base ==
            IF /\ "M1" \in DOMAIN timeframe_data
               /\ m1_index < Len(timeframe_data["M1"])
            THEN DictSet(EmptyDict, "M1",
                         Snapshot("M1", Iloc(timeframe_data["M1"], m1_index),
                                  m1_index))
            ELSE EmptyDict
    IN SyncCoarse([indices |-> indices, candles |-> base], m1_timestamp, 1)

-----------------------------------------------------------------------------
(* Stream publisher: candle_stream_generator, one loop iteration per step. *)
(* Commands run between iterations, while the generator is suspended in   *)
(* its sleep.                                                             *)

HeartbeatEvent == [type |-> "heartbeat", status |-> "paused"]

FinishedEvent == [type |-> "finished"]

NotLoadedAsFinished == [type |-> "finished"]

\* line 199
NotLoadedEvent == [error |-> "No replay data loaded"]

MultiTimeframeEvent(timestamp, candles, index) ==
    [type |-> "multi_timeframe_candle",
     timestamp |-> timestamp,
     timeframes |-> candles,
     primary_timeframe |-> "M1",
     index |-> index,
     loaded_timeframes |-> DOMAIN timeframe_data]

LegacyCandleEvent(m1_candle) ==
    [type |-> "candle",
     timeframe |-> m1_candle.timeframe,
     timestamp |-> m1_candle.timestamp,
     index |-> m1_candle.index]

\* a request opens the stream; the generator has not run yet
OpenStream ==
    /\ pc \in {"none", "done", "closed"}
    /\ pc' = "start"
    /\ events' = <<>>
    /\ last' = Did("open", "", 0)
    /\ UNCHANGED <<loaded_data, session>>

\* the generator up to its loop
StreamStart ==
    /\ pc = "start"
    /\ IF NotLoaded
       THEN /\ events' = Append(events, NotLoadedEvent)
            /\ pc' = "done"
            /\ last' = Did("stream_start", "error", 0)
       ELSE /\ pc' = "loop"
            /\ UNCHANGED events
            /\ last' = Did("stream_start", "streaming", 0)
    /\ UNCHANGED <<loaded_data, session>>

WhileCondition ==
    IF replay_data # None
    THEN current_index < Len(replay_data[1])
    ELSE FALSE

\* the loop condition fails: the code after the loop
StreamFinish ==
    /\ pc = "loop"
    /\ ~WhileCondition
    /\ is_playing' = FALSE
    /\ events' = Append(events, FinishedEvent)
    /\ pc' = "done"
    /\ last' = Did("finished", "", current_index)
    /\ UNCHANGED <<loaded_data, current_date, current_index, total_candles,
                   speed, subscribers, timeframe_data, timeframe_indices,
                   current_m1_timestamp, replay_data>>

\* an iteration while paused
StreamHeartbeat(cap) ==
    /\ pc = "loop"
    /\ WhileCondition
    /\ ~is_playing
    /\ Len(events) < cap
    /\ events' = Append(events, HeartbeatEvent)
    /\ last' = Did("heartbeat", "", current_index)
    /\ UNCHANGED <<loaded_data, session, pc>>

NextIndexSkipping(index) == index + 2

NextIndex(index) == index + 1

M1CursorStale(indices, index) == indices

\* self.timeframe_indices['M1'] = self.current_index
WithM1Cursor(indices, index) == DictSet(indices, "M1", index)

\* an iteration while playing, with no command inside it
StreamTick(cap) ==
    /\ pc = "loop"
    /\ WhileCondition
    /\ is_playing
    /\ Len(events) < cap
    /\ LET m1_candle_row == Iloc(replay_data[1], current_index)
           current_timestamp == m1_candle_row.timestamp
           sync == GetSynchronizedCandles(
                       current_timestamp,
                       WithM1Cursor(timeframe_indices, current_index))
           multi_tf_data == MultiTimeframeEvent(current_timestamp, sync.candles,
                                                current_index)
       IN /\ current_m1_timestamp' = Some(current_timestamp)
          /\ timeframe_indices' = sync.indices
          /\ events' =
                 IF "M1" \in DOMAIN sync.candles
                 THEN events \o <<multi_tf_data,
                                  LegacyCandleEvent(sync.candles["M1"])>>
                 ELSE Append(events, multi_tf_data)
          /\ current_index' = NextIndex(current_index)
          /\ last' = Did("tick", "candle", current_index)
    /\ UNCHANGED <<loaded_data, is_playing, current_date, total_candles, speed,
                   subscribers, timeframe_data, replay_data, pc>>

\* the consumer goes away while the generator is suspended
CloseStream ==
    /\ pc \in {"start", "loop"}
    /\ pc' = "closed"
    /\ last' = Did("close", "", 0)
    /\ UNCHANGED <<loaded_data, session, events>>

-----------------------------------------------------------------------------
(* Request layer (app.py) *)

SpeedAllowedAny(spd) == spd > 0

SpeedAllowed(spd) == spd \in AllowedSpeeds

Rejected(op, arg) ==
    /\ last' = Did(op, "rejected", arg)
    /\ UNCHANGED <<loaded_data, session, pc, events>>

ApiStartReplay(date, spd) ==
    IF date = None
    THEN Rejected("start", -1)
    ELSE IF ~SpeedAllowed(spd)
         THEN Rejected("start", date[1])
         ELSE StartReplay(date[1], spd)

ApiSetReplaySpeed(spd) ==
    IF ~SpeedAllowed(spd)
    THEN Rejected("set_speed", spd)
    ELSE SetSpeed(spd)

-----------------------------------------------------------------------------
(* candle_stream_generator statement by statement.  The server is started  *)
(* with threaded=True: every request runs in a thread of its own, a        *)
(* command can run between any two statements of a generator, and nothing  *)
(* in ReplayServer takes a lock.  A step below is one statement, or a run  *)
(* of statements that touch no field of the session between them.          *)

ErrorEvent(message) == [type |-> "error", error |-> message]

SetGen(s, g) == gens' = [gens EXCEPT ![s] = g]

\* the server calls candle_stream_generator() for a request
GenOpen(s) ==
    /\ gens[s].pc \in {"none", "done", "crashed"}
    /\ SetGen(s, [NoGen EXCEPT !.pc = "start"])
    /\ UNCHANGED <<detector, loaded_data, session, pc, events, last, pending_seek>>

\* lines 198-200
GenStart(s) ==
    /\ gens[s].pc = "start"
    /\ IF NotLoaded
       THEN SetGen(s, [gens[s] EXCEPT !.pc = "done",
                                      !.events = Append(@, NotLoadedEvent)])
       ELSE SetGen(s, [gens[s] EXCEPT !.pc = "cond"])
    /\ UNCHANGED <<detector, loaded_data, session, pc, events, last, pending_seek>>

\* line 204, the test of the conditional expression: replay_data is not None
GenCond(s) ==
    /\ gens[s].pc = "cond"
    /\ SetGen(s, [gens[s] EXCEPT
                      !.pc = IF replay_data # None THEN "cond_len"
                             ELSE "epilogue"])
    /\ UNCHANGED <<detector, loaded_data, session, pc, events, last, pending_seek>>

\* line 204, current_index < len(replay_data); len(None) raises TypeError
\* outside the try statement, which ends the generator without an event
GenCondLen(s) ==
    /\ gens[s].pc = "cond_len"
    /\ IF replay_data = None
       THEN SetGen(s, [gens[s] EXCEPT !.pc = "crashed"])
       ELSE IF current_index < Len(replay_data[1])
            THEN SetGen(s, [gens[s] EXCEPT
                                !.pc = "playing",
                                !.index = current_index,
                                !.after_stop = IF @ = "stopped"
                                               THEN "iterating" ELSE @])
            ELSE SetGen(s, [gens[s] EXCEPT !.pc = "epilogue"])
    /\ UNCHANGED <<detector, loaded_data, session, pc, events, last, pending_seek>>

\* lines 205-209: the heartbeat of a paused iteration, or on to the try
GenPlaying(s, cap) ==
    /\ gens[s].pc = "playing"
    /\ Len(gens[s].events) < cap
    /\ IF ~is_playing
       THEN SetGen(s, [gens[s] EXCEPT !.pc = "cond",
                                      !.events = Append(@, HeartbeatEvent)])
       ELSE SetGen(s, [gens[s] EXCEPT !.pc = "read"])
    /\ UNCHANGED <<detector, loaded_data, session, pc, events, last, pending_seek>>

\* lines 213-214: replay_data.iloc[current_index]
GenRead(s) ==
    /\ gens[s].pc = "read"
    /\ IF replay_data = None
       THEN /\ SetGen(s, [gens[s] EXCEPT
                              !.pc = "except",
                              !.message = "'NoneType' object has no attribute 'iloc'"])
            /\ UNCHANGED pending_seek
       ELSE IF current_index >= Len(replay_data[1])
            THEN /\ SetGen(s, [gens[s] EXCEPT
                                   !.pc = "except",
                                   !.message = "single positional indexer is out-of-bounds"])
                 /\ UNCHANGED pending_seek
            ELSE /\ SetGen(s, [gens[s] EXCEPT
                                   !.pc = "stamp",
                                   !.current_timestamp =
                                       Some(Iloc(replay_data[1],
                                                 current_index).timestamp)])
                 /\ pending_seek' = -1
    /\ UNCHANGED <<detector, loaded_data, session, pc, events, last>>

\* line 215
GenStamp(s) ==
    /\ gens[s].pc = "stamp"
    /\ current_m1_timestamp' = gens[s].current_timestamp
    /\ SetGen(s, [gens[s] EXCEPT !.pc = "cursor"])
    /\ UNCHANGED <<detector, loaded_data, is_playing, current_date, current_index,
                   total_candles, speed, subscribers, timeframe_data,
                   timeframe_indices, replay_data, pc, events, last,
                   pending_seek>>

\* line 218
GenCursor(s) ==
    /\ gens[s].pc = "cursor"
    /\ timeframe_indices' = WithM1Cursor(timeframe_indices, current_index)
    /\ SetGen(s, [gens[s] EXCEPT !.pc = "sync"])
    /\ UNCHANGED <<detector, loaded_data, is_playing, current_date, current_index,
                   total_candles, speed, subscribers, timeframe_data,
                   current_m1_timestamp, replay_data, pc, events, last,
                   pending_seek>>

\* line 289 of _get_synchronized_candles: 'M1' in self.timeframe_data
GenSyncTest(s) ==
    /\ gens[s].pc = "sync"
    /\ SetGen(s, [gens[s] EXCEPT
                      !.pc = IF "M1" \in DOMAIN timeframe_data
                             THEN "sync_m1" ELSE "sync_coarse"])
    /\ UNCHANGED <<detector, loaded_data, session, pc, events, last, pending_seek>>

\* lines 290-306: self.timeframe_data['M1'] raises KeyError on a cleared dict
GenSyncM1(s) ==
    /\ gens[s].pc = "sync_m1"
    /\ IF "M1" \notin DOMAIN timeframe_data
       THEN SetGen(s, [gens[s] EXCEPT !.pc = "except", !.message = "'M1'"])
       ELSE LET m1_data == timeframe_data["M1"]
                m1_index == DictGet(timeframe_indices, "M1", 0)
            IN SetGen(s, [gens[s] EXCEPT
                   !.pc = "sync_coarse",
                   !.synchronized_candles =
                       IF m1_index < Len(m1_data)
                       THEN DictSet(EmptyDict, "M1",
                                    Snapshot("M1", Iloc(m1_data, m1_index),
                                             m1_index))
                       ELSE EmptyDict])
    /\ UNCHANGED <<detector, loaded_data, session, pc, events, last, pending_seek>>

\* lines 309-362: the loop over the coarser timeframes
GenSyncCoarse(s) ==
    /\ gens[s].pc = "sync_coarse"
    /\ LET acc == SyncCoarse([indices |-> timeframe_indices,
                              candles |-> gens[s].synchronized_candles],
                             gens[s].current_timestamp[1], 1)
       IN /\ timeframe_indices' = acc.indices
          /\ SetGen(s, [gens[s] EXCEPT !.pc = "emit",
                                       !.synchronized_candles = acc.candles])
    /\ UNCHANGED <<detector, loaded_data, is_playing, current_date, current_index,
                   total_candles, speed, subscribers, timeframe_data,
                   current_m1_timestamp, replay_data, pc, events, last,
                   pending_seek>>

\* lines 224-246: multi_tf_data is built from the fields as they are now and
\* yielded
GenEmit(s) ==
    /\ gens[s].pc = "emit"
    /\ SetGen(s, [gens[s] EXCEPT
           !.pc = IF "M1" \in DOMAIN gens[s].synchronized_candles
                  THEN "legacy" ELSE "advance",
           !.events = Append(@, MultiTimeframeEvent(
                                    gens[s].current_timestamp[1],
                                    gens[s].synchronized_candles,
                                    current_index)),
           !.after_stop = IF @ = "iterating" THEN "candle" ELSE @])
    /\ UNCHANGED <<detector, loaded_data, session, pc, events, last, pending_seek>>

\* line 243, the second yield
GenLegacy(s) ==
    /\ gens[s].pc = "legacy"
    /\ SetGen(s, [gens[s] EXCEPT
           !.pc = "advance",
           !.events = Append(@, LegacyCandleEvent(
                                    gens[s].synchronized_candles["M1"]))])
    /\ UNCHANGED <<detector, loaded_data, session, pc, events, last, pending_seek>>

\* line 249, self.current_index += 1: the load and the addition
GenAdvanceLoad(s) ==
    /\ gens[s].pc = "advance"
    /\ SetGen(s, [gens[s] EXCEPT !.pc = "store",
                                 !.next_index = NextIndex(current_index)])
    /\ UNCHANGED <<detector, loaded_data, session, pc, events, last, pending_seek>>

\* line 249, the store
GenAdvanceStore(s) ==
    /\ gens[s].pc = "store"
    /\ current_index' = gens[s].next_index
    /\ SetGen(s, [gens[s] EXCEPT !.pc = "sleep",
                                 !.current_timestamp = None,
                                 !.synchronized_candles = EmptyDict,
                                 !.next_index = -1,
                                 !.advanced = TRUE])
    /\ UNCHANGED <<detector, loaded_data, is_playing, current_date, total_candles,
                   speed, subscribers, timeframe_data, timeframe_indices,
                   current_m1_timestamp, replay_data, pc, events, last,
                   pending_seek>>

SleepSecondsDefault == DefaultSpeed

\* line 252: the argument of time.sleep is self.speed as it is read now
SleepSeconds == speed

\* line 252: the call of time.sleep
GenSleep(s) ==
    /\ gens[s].pc = "sleep"
    /\ SetGen(s, [gens[s] EXCEPT !.pc = "sleeping", !.sleep = SleepSeconds])
    /\ UNCHANGED <<detector, loaded_data, session, pc, events, last, pending_seek>>

\* time.sleep returns: back to the loop condition
GenWake(s) ==
    /\ gens[s].pc = "sleeping"
    /\ SetGen(s, [gens[s] EXCEPT !.pc = "cond", !.sleep = -1])
    /\ UNCHANGED <<detector, loaded_data, session, pc, events, last, pending_seek>>

\* lines 254-257: the error event, then break
GenExcept(s) ==
    /\ gens[s].pc = "except"
    /\ SetGen(s, [gens[s] EXCEPT
           !.pc = "epilogue",
           !.events = Append(@, ErrorEvent(gens[s].message))])
    /\ UNCHANGED <<detector, loaded_data, session, pc, events, last, pending_seek>>

\* lines 259-262, reached when the loop condition fails and after break
GenEpilogue(s) ==
    /\ gens[s].pc = "epilogue"
    /\ is_playing' = FALSE
    /\ SetGen(s, [gens[s] EXCEPT !.pc = "done",
                                 !.events = Append(@, FinishedEvent)])
    /\ UNCHANGED <<detector, loaded_data, current_date, current_index, total_candles,
                   speed, subscribers, timeframe_data, timeframe_indices,
                   current_m1_timestamp, replay_data, pc, events, last,
                   pending_seek>>

\* one statement of the generator of stream s
GenStep(s, cap) ==
    \/ GenStart(s)
    \/ GenCond(s)
    \/ GenCondLen(s)
    \/ GenPlaying(s, cap)
    \/ GenRead(s)
    \/ GenStamp(s)
    \/ GenCursor(s)
    \/ GenSyncTest(s)
    \/ GenSyncM1(s)
    \/ GenSyncCoarse(s)
    \/ GenEmit(s)
    \/ GenLegacy(s)
    \/ GenAdvanceLoad(s)
    \/ GenAdvanceStore(s)
    \/ GenSleep(s)
    \/ GenWake(s)
    \/ GenExcept(s)
    \/ GenEpilogue(s)

(* Commands of the request threads, with the bookkeeping of the generators *)

\* stop_replay ran: every generator that is in its loop has seen a stop
MarkStopped ==
    [s \in Streams |->
        IF gens[s].pc \in {"none", "start", "done", "crashed"}
        THEN gens[s]
        ELSE [gens[s] EXCEPT !.after_stop = IF @ = "no" THEN "stopped" ELSE @,
                             !.advanced = FALSE]]

CmdStart(date, spd) ==
    /\ ApiStartReplay(date, spd)
    /\ gens' = IF last'.status = "rejected" THEN gens ELSE MarkStopped
    /\ pending_seek' = -1

CmdStop ==
    /\ StopReplay
    /\ gens' = MarkStopped
    /\ pending_seek' = -1

CmdSeek(index) ==
    /\ SeekToIndex(index)
    /\ pending_seek' = IF last'.status = "seeked" THEN index ELSE pending_seek
    /\ UNCHANGED gens

CmdSetSpeed(spd) ==
    /\ ApiSetReplaySpeed(spd)
    /\ UNCHANGED threads

-----------------------------------------------------------------------------
(* Gap detector: src/backend/fvg_detector_v4.py.  A candle of its series   *)
(* is [Open, High, Low, Close, timestamp]; prices are whole numbers, which *)
(* float() and the comparisons leave as they are.                          *)

\* self.max_lookback of the detector app.py builds
max_lookback == 40

\* the candles after L that a gap is drawn over
DisplayHorizon == 40

CheckFvgClearedUnbounded(rows, start_idx, level_price, fvg_type) ==
    LET cleared_mask ==
            {j \in (start_idx + 1)..(Len(rows) - 1) :
                IF fvg_type = "bullish"
                THEN Iloc(rows, j).Close < level_price
                ELSE Iloc(rows, j).Close > level_price}
    IN IF cleared_mask # {}
       THEN Some(CHOOSE j \in cleared_mask : \A k \in cleared_mask : j <= k)
       ELSE None

CheckFvgClearedLast(rows, start_idx, level_price, fvg_type) ==
    LET end_idx == Min(start_idx + max_lookback + 1, Len(rows))
        cleared_mask ==
            {j \in (start_idx + 1)..(end_idx - 1) :
                IF fvg_type = "bullish"
                THEN Iloc(rows, j).Close < level_price
                ELSE Iloc(rows, j).Close > level_price}
    IN IF cleared_mask # {}
       THEN Some(CHOOSE j \in cleared_mask : \A k \in cleared_mask : j >= k)
       ELSE None

\* _check_fvg_cleared: the first position after start_idx, within
\* max_lookback candles, whose close is beyond level_price
CheckFvgCleared(rows, start_idx, level_price, fvg_type) ==
    LET end_idx == Min(start_idx + max_lookback + 1, Len(rows))
        cleared_mask ==
            {j \in (start_idx + 1)..(end_idx - 1) :
                IF fvg_type = "bullish"
                THEN Iloc(rows, j).Close < level_price
                ELSE Iloc(rows, j).Close > level_price}
    IN IF cleared_mask # {}
       THEN Some(CHOOSE j \in cleared_mask : \A k \in cleared_mask : j <= k)
       ELSE None

IsBullishFvgByOpen(L, M, R) ==
    M.Close > M.Open /\ M.Open > L.High /\ L.High < R.Low

\* lines 179-183
IsBullishFvg(L, M, R) ==
    M.Close > M.Open /\ M.Close > L.High /\ L.High < R.Low

IsBearishFvgNoGap(L, M, R) ==
    M.Close < M.Open /\ M.Close < L.Low

IsBearishFvgByOpen(L, M, R) ==
    M.Close < M.Open /\ M.Open < L.Low /\ L.Low > R.High

\* lines 214-218
IsBearishFvg(L, M, R) ==
    M.Close < M.Open /\ M.Close < L.Low /\ L.Low > R.High

FvgToSeriesEnd(rows, type, topPrice, bottomPrice, current_idx, level_price) ==
    LET left_idx == current_idx - 2
        end_idx == Len(rows) - 1
        fvg == [type |-> type,
                topPrice |-> topPrice,
                bottomPrice |-> bottomPrice,
                startTime |-> Iloc(rows, left_idx).timestamp,
                endTime |-> Iloc(rows, end_idx).timestamp,
                detectionIndex |-> current_idx,
                leftIndex |-> left_idx,
                middleIndex |-> current_idx - 1,
                status |-> "valid"]
        cleared_idx == CheckFvgCleared(rows, current_idx, level_price, type)
    IN IF cleared_idx # None
       THEN DictSet(DictSet(fvg, "status", "cleared"),
                    "clearedIndex", cleared_idx[1])
       ELSE fvg

\* the dict of lines 189-205 and 224-240
Fvg(rows, type, topPrice, bottomPrice, current_idx, level_price) ==
    LET left_idx == current_idx - 2
        end_idx == Min(left_idx + DisplayHorizon, Len(rows) - 1)
        fvg == [type |-> type,
                topPrice |-> topPrice,
                bottomPrice |-> bottomPrice,
                startTime |-> Iloc(rows, left_idx).timestamp,
                endTime |-> Iloc(rows, end_idx).timestamp,
                detectionIndex |-> current_idx,
                leftIndex |-> left_idx,
                middleIndex |-> current_idx - 1,
                status |-> "valid"]
        cleared_idx == CheckFvgCleared(rows, current_idx, level_price, type)
    IN IF cleared_idx # None
       THEN DictSet(DictSet(fvg, "status", "cleared"),
                    "clearedIndex", cleared_idx[1])
       ELSE fvg

RECURSIVE ScanFvgsApart(_, _, _)
ScanFvgsApart(rows, i, found) ==
    IF i >= Len(rows) THEN found
    ELSE LET L == Iloc(rows, i - 2)
             M == Iloc(rows, i - 1)
             R == Iloc(rows, i)
             free == found = <<>>
                        \/ found[Len(found)].detectionIndex < i - 1
             with_bullish ==
                 IF free /\ IsBullishFvg(L, M, R)
                 THEN Append(found, Fvg(rows, "bullish", R.Low, L.High, i,
                                        L.High))
                 ELSE found
             with_bearish ==
                 IF free /\ IsBearishFvg(L, M, R)
                 THEN Append(with_bullish,
                             Fvg(rows, "bearish", L.Low, R.High, i, L.Low))
                 ELSE with_bullish
         IN ScanFvgsApart(rows, i + 1, with_bearish)

\* the for loop of line 154, from index i on
RECURSIVE ScanFvgs(_, _, _)
ScanFvgs(rows, i, found) ==
    IF i >= Len(rows) THEN found
    ELSE LET L == Iloc(rows, i - 2)
             M == Iloc(rows, i - 1)
             R == Iloc(rows, i)
             with_bullish ==
                 IF IsBullishFvg(L, M, R)
                 THEN Append(found, Fvg(rows, "bullish", R.Low, L.High, i,
                                        L.High))
                 ELSE found
             with_bearish ==
                 IF IsBearishFvg(L, M, R)
                 THEN Append(with_bullish,
                             Fvg(rows, "bearish", L.Low, R.High, i, L.Low))
                 ELSE with_bullish
         IN ScanFvgs(rows, i + 1, with_bearish)

ShortSeriesRaises == [raised |-> TRUE, value |-> <<>>]

\* lines 29-30 and 147-148: return []
ShortSeriesResult == [raised |-> FALSE, value |-> <<>>]

\* detect_fvgs_vectorized: whether it raised, and the list it returned
DetectFvgsVectorized(rows) ==
    IF Len(rows) < 3
    THEN ShortSeriesResult
    ELSE [raised |-> FALSE, value |-> ScanFvgs(rows, 2, <<>>)]

\* the dict of lines 68-85 and 93-110 of detect_fvgs, found at the middle
\* candle curr_idx
FvgAtMiddle(rows, type, topPrice, bottomPrice, curr_idx, level_price) ==
    LET left_idx == curr_idx - 1
        end_idx == Min(left_idx + DisplayHorizon, Len(rows) - 1)
        fvg == [type |-> type,
                topPrice |-> topPrice,
                bottomPrice |-> bottomPrice,
                startTime |-> Iloc(rows, left_idx).timestamp,
                endTime |-> Iloc(rows, end_idx).timestamp,
                detectionIndex |-> curr_idx,
                status |-> "valid"]
        cleared_index == CheckFvgCleared(rows, curr_idx, level_price, type)
    IN IF cleared_index # None
       THEN DictSet(DictSet(fvg, "status", "cleared"),
                    "clearedIndex", cleared_index[1])
       ELSE fvg

\* the for loop of line 40 of detect_fvgs, from index i on
RECURSIVE ScanFvgsAtMiddle(_, _, _)
ScanFvgsAtMiddle(rows, i, found) ==
    IF i >= Len(rows) - 1 THEN found
    ELSE LET L == Iloc(rows, i - 1)
             M == Iloc(rows, i)
             R == Iloc(rows, i + 1)
         IN ScanFvgsAtMiddle(
                rows, i + 1,
                IF IsBullishFvg(L, M, R)
                THEN Append(found, FvgAtMiddle(rows, "bullish", R.Low, L.High,
                                               i, L.High))
                ELSE IF IsBearishFvg(L, M, R)
                     THEN Append(found, FvgAtMiddle(rows, "bearish", L.Low,
                                                    R.High, i, L.Low))
                     ELSE found)

\* detect_fvgs
DetectFvgs(rows) ==
    IF Len(rows) < 3
    THEN ShortSeriesResult
    ELSE [raised |-> FALSE, value |-> ScanFvgsAtMiddle(rows, 1, <<>>)]

\* the candles the series are made of: every body over three prices without
\* wicks, and one candle whose wicks reach beyond its body
Prices == 1..3

FvgCandles ==
    {[Open |-> o, Close |-> c, High |-> Max(o, c), Low |-> Min(o, c)] :
        o \in Prices, c \in Prices}
    \cup {[Open |-> 2, Close |-> 2, High |-> 3, Low |-> 1]}

\* the series gets its next candle, one minute after the last one
ExtendSeries(candle) ==
    /\ fvgs = None
    /\ Len(df) < MaxFvgLen
    /\ df' = Append(df, [Open |-> candle.Open, High |-> candle.High,
                         Low |-> candle.Low, Close |-> candle.Close,
                         timestamp |-> 60 * Len(df)])
    /\ UNCHANGED <<fvgs, continuity, filled, loaded_data, session, pc, events, last,
                   threads>>

\* a candle without body or wicks
Flat(price) ==
    [Open |-> price, Close |-> price, High |-> price, Low |-> price]

\* the prices a long series moves between; its gaps have their level at 3
LongPrices == 1..5

\* three candles that open a bullish gap from 3 to 5
BullishTriple ==
    <<Flat(3) @@ [timestamp |-> 0],
      [Open |-> 3, Close |-> 5, High |-> 5, Low |-> 3, timestamp |-> 60],
      Flat(5) @@ [timestamp |-> 120]>>

\* three candles that open a bearish gap from 3 to 1
BearishTriple ==
    <<Flat(3) @@ [timestamp |-> 0],
      [Open |-> 3, Close |-> 1, High |-> 3, Low |-> 1, timestamp |-> 60],
      Flat(1) @@ [timestamp |-> 120]>>

\* the price has left the level the third candle closed at
Moved == \E i \in 4..Len(df) : df[i].Close # df[i - 1].Close

\* a long series gets one more candle at the price of its last one
ExtendQuiet ==
    /\ fvgs = None
    /\ Len(df) < MaxLongLen
    /\ df' = Append(df, Flat(df[Len(df)].Close)
                            @@ [timestamp |-> 60 * Len(df)])
    /\ UNCHANGED <<fvgs, continuity, filled, loaded_data, session, pc, events, last,
                   threads>>

\* a long series moves to another price, once
ExtendMove(price) ==
    /\ fvgs = None
    /\ Len(df) < MaxLongLen
    /\ ~Moved
    /\ price # df[Len(df)].Close
    /\ df' = Append(df, Flat(price) @@ [timestamp |-> 60 * Len(df)])
    /\ UNCHANGED <<fvgs, continuity, filled, loaded_data, session, pc, events, last,
                   threads>>

\* a caller hands the series to one entry point of the detector; fvgs keeps
\* the entry point with what it returned
CallDetectFvgsVectorized ==
    /\ fvgs = None
    /\ fvgs' = Some([entry |-> "detect_fvgs_vectorized",
                     raised |-> DetectFvgsVectorized(df).raised,
                     value |-> DetectFvgsVectorized(df).value])
    /\ UNCHANGED <<df, continuity, filled, loaded_data, session, pc, events, last,
                   threads>>

CallDetectFvgs ==
    /\ fvgs = None
    /\ fvgs' = Some([entry |-> "detect_fvgs",
                     raised |-> DetectFvgs(df).raised,
                     value |-> DetectFvgs(df).value])
    /\ UNCHANGED <<df, continuity, filled, loaded_data, session, pc, events, last,
                   threads>>

-----------------------------------------------------------------------------
(* Continuity checker: src/backend/candle_continuity_checker.py.  A candle *)
(* of its series is [timestamp |-> seconds].                               *)

timeframe_minutes ==
    [M1 |-> 1, M5 |-> 5, M15 |-> 15, H1 |-> 60, H4 |-> 240, D1 |-> 1440]

\* self.timeframe_minutes.get(timeframe, 15)
MinutesOf(timeframe) ==
    IF timeframe \in DOMAIN timeframe_minutes
    THEN timeframe_minutes[timeframe]
    ELSE 15

\* int(x / y): the quotient, cut towards zero
IntDiv(x, y) == IF x >= 0 THEN x \div y ELSE -((-x) \div y)

IsGapInclusive(time_diff, expected_diff) == 2 * time_diff >= 3 * expected_diff

\* line 40: time_diff > expected_diff * 1.5
IsGap(time_diff, expected_diff) == 2 * time_diff > 3 * expected_diff

GapRecordAfter(rows, idx) ==
    [index |-> idx + 1,
     from_time |-> Iloc(rows, idx).timestamp,
     to_time |-> Iloc(rows, idx + 1).timestamp,
     gap_minutes |-> IntDiv(Iloc(rows, idx + 1).timestamp
                                - Iloc(rows, idx).timestamp, 60)]

\* the dict of lines 45-50
GapRecord(rows, idx) ==
    [index |-> idx,
     from_time |-> Iloc(rows, idx).timestamp,
     to_time |-> Iloc(rows, idx + 1).timestamp,
     gap_minutes |-> IntDiv(Iloc(rows, idx + 1).timestamp
                                - Iloc(rows, idx).timestamp, 60)]

\* the loop of lines 44-51 over np.where(gap_mask), from position idx on
RECURSIVE CollectGaps(_, _, _, _)
CollectGaps(rows, expected_diff, idx, gaps) ==
    IF idx >= Len(rows) - 1 THEN gaps
    ELSE CollectGaps(
             rows, expected_diff, idx + 1,
             IF IsGap(Iloc(rows, idx + 1).timestamp
                          - Iloc(rows, idx).timestamp, expected_diff)
             THEN Append(gaps, GapRecord(rows, idx))
             ELSE gaps)

\* check_continuity
CheckContinuity(rows, timeframe) ==
    IF Len(rows) < 2
    THEN [is_continuous |-> TRUE, gaps |-> <<>>, total_gaps |-> 0]
    ELSE LET expected_diff == MinutesOf(timeframe) * 60
             gaps == CollectGaps(rows, expected_diff, 0, <<>>)
         IN [is_continuous |-> Len(gaps) = 0,
             gaps |-> gaps,
             total_gaps |-> Len(gaps)]

\* the timeframes whose series are checked
ContinuityTimeframes == {"M1", "M5"}

\* the seconds from one candle to the next: the spacing of M1 and of M5,
\* one and a half times and three times each, and 100 seconds
ContinuityDeltas == {60, 90, 100, 180, 300, 450, 900}

\* the series gets its next candle, delta seconds after the last one
ExtendByDelta(delta) ==
    /\ continuity = None
    /\ Len(df) < MaxContLen
    /\ df' = Append(df, [timestamp |->
                             IF df = <<>> THEN 0
                             ELSE df[Len(df)].timestamp + delta])
    /\ UNCHANGED <<fvgs, continuity, filled, loaded_data, session, pc, events, last,
                   threads>>

\* get_data_by_date hands the series and its timeframe to check_continuity
CallCheckContinuity(timeframe) ==
    /\ continuity = None
    /\ continuity' = Some([timeframe |-> timeframe,
                           result |-> CheckContinuity(df, timeframe)])
    /\ UNCHANGED <<df, fvgs, filled, loaded_data, session, pc, events, last,
                   threads>>

\* freq_map of lines 73-80, as seconds
freq_map ==
    [M1 |-> 60, M5 |-> 300, M15 |-> 900, H1 |-> 3600, H4 |-> 14400,
     D1 |-> 86400]

\* freq_map.get(timeframe, '15T')
FreqOf(timeframe) ==
    IF timeframe \in DOMAIN freq_map THEN freq_map[timeframe] ELSE 900

\* the timestamp column of a row no candle of the series fell into: 'first'
\* of nothing, which no later line fills.  Timestamps are never negative.
NaN == -1

\* df.resample(freq): a row belongs to the bin that starts at the last
\* multiple of freq, counted from midnight, at or before its DateTime
BinOf(time, freq) == time \div freq

RECURSIVE MaxOf(_, _, _)
MaxOf(rows, column, i) ==
    IF i = Len(rows) THEN rows[i][column]
    ELSE Max(rows[i][column], MaxOf(rows, column, i + 1))

RECURSIVE MinOf(_, _, _)
MinOf(rows, column, i) ==
    IF i = Len(rows) THEN rows[i][column]
    ELSE Min(rows[i][column], MinOf(rows, column, i + 1))

RECURSIVE SumOf(_, _, _)
SumOf(rows, column, i) ==
    IF i > Len(rows) THEN 0
    ELSE rows[i][column] + SumOf(rows, column, i + 1)

\* .agg(...) of lines 84-91 over the rows of one bin, labelled with the
\* start of the bin
Aggregate(members, label) ==
    [DateTime |-> label,
     Open |-> members[1].Open,
     High |-> MaxOf(members, "High", 1),
     Low |-> MinOf(members, "Low", 1),
     Close |-> members[Len(members)].Close,
     Volume |-> SumOf(members, "Volume", 1),
     timestamp |-> members[1].timestamp]

\* lines 93-97 on the row of an empty bin: Close from the row before it,
\* Open, High and Low from Close, Volume 0
FlatFill(prev, label) ==
    [DateTime |-> label,
     Open |-> prev.Close,
     High |-> prev.Close,
     Low |-> prev.Close,
     Close |-> prev.Close,
     Volume |-> 0,
     timestamp |-> NaN]

\* lines 84-99: one row per bin, from bin b to the bin of the last candle
RECURSIVE Resample(_, _, _, _)
Resample(rows, freq, b, out) ==
    IF b > BinOf(rows[Len(rows)].DateTime, freq) THEN out
    ELSE LET members ==
                 SelectSeq(rows, LAMBDA r : BinOf(r.DateTime, freq) = b)
         IN Resample(rows, freq, b + 1,
                     Append(out,
                            IF members # <<>>
                            THEN Aggregate(members, b * freq)
                            ELSE FlatFill(out[Len(out)], b * freq)))

\* fill_missing_candles
FillMissingCandles(rows, timeframe) ==
    IF Len(rows) < 2 THEN rows
    ELSE Resample(rows, FreqOf(timeframe),
                  BinOf(rows[1].DateTime, FreqOf(timeframe)), <<>>)

\* the timeframes whose series are filled
FillTimeframes == {"M1", "D1"}

\* 09:30 of the first day: a minute of the M1 series, and the time
\* _load_csv_optimized gives a daily candle that has no Time column
MarketOpen == 34200

\* the seconds from one candle to the next: one, two and three minutes, and
\* one, two and three days
FillDeltas == {60, 120, 180, 86400, 172800, 259200}

\* the candles a series to fill is made of
FillCandles ==
    {[Open |-> 1, High |-> 2, Low |-> 1, Close |-> 2, Volume |-> 1],
     [Open |-> 3, High |-> 3, Low |-> 1, Close |-> 1, Volume |-> 2]}

\* the series gets its next candle, delta seconds after the last one
ExtendCandle(candle, delta) ==
    /\ filled = None
    /\ continuity = None
    /\ Len(df) < MaxFillLen
    /\ LET time == IF df = <<>> THEN MarketOpen
                   ELSE df[Len(df)].DateTime + delta
       IN df' = Append(df, candle @@ [DateTime |-> time, timestamp |-> time])
    /\ UNCHANGED <<fvgs, continuity, filled, loaded_data, session, pc, events,
                   last, threads>>

\* the series is one of this timeframe, with at most two candles missing
\* between two of its candles
IsSeriesOf(timeframe) ==
    \A i \in 2..Len(df) :
        (df[i].DateTime - df[i - 1].DateTime)
            \in {k * FreqOf(timeframe) : k \in 1..3}

\* a caller hands the series and its timeframe to fill_missing_candles
CallFillMissingCandles(timeframe) ==
    /\ filled = None
    /\ IsSeriesOf(timeframe)
    /\ filled' = Some([timeframe |-> timeframe,
                       result |-> FillMissingCandles(df, timeframe)])
    /\ UNCHANGED <<df, fvgs, continuity, loaded_data, session, pc, events,
                   last, threads>>

-----------------------------------------------------------------------------
(* Specifications *)

\* every command and the stream, on the two-day stores
Next ==
    \/ (\E date \in DateInputs, spd \in SpeedInputs :
            ApiStartReplay(date, spd)) /\ UNCHANGED <<threads, detector>>
    \/ PlayReplay /\ UNCHANGED <<threads, detector>>
    \/ PauseReplay /\ UNCHANGED <<threads, detector>>
    \/ StopReplay /\ UNCHANGED <<threads, detector>>
    \/ (\E spd \in SpeedInputs : ApiSetReplaySpeed(spd)) /\ UNCHANGED <<threads, detector>>
    \/ (\E index \in SeekInputs : SeekToIndex(index)) /\ UNCHANGED <<threads, detector>>
    \/ OpenStream /\ UNCHANGED <<threads, detector>>
    \/ StreamStart /\ UNCHANGED <<threads, detector>>
    \/ StreamFinish /\ UNCHANGED <<threads, detector>>
    \/ StreamHeartbeat(MaxEvents) /\ UNCHANGED <<threads, detector>>
    \/ StreamTick(MaxEvents) /\ UNCHANGED <<threads, detector>>
    \/ CloseStream /\ UNCHANGED <<threads, detector>>

Spec == Init /\ [][Next]_vars

\* seeks and ticks of one session on a complete M1 day
InitSync == InitWith(SyncStores) /\ DetectorIdle

NextSync ==
    \/ NotLoaded /\ ApiStartReplay(Some(0), DefaultSpeed) /\ UNCHANGED <<threads, detector>>
    \/ ~NotLoaded /\ ~is_playing /\ PlayReplay /\ UNCHANGED <<threads, detector>>
    \/ (\E index \in 0..(MaxSyncM1 - 1) : SeekToIndex(index))
           /\ UNCHANGED <<threads, detector>>
    \/ OpenStream /\ UNCHANGED <<threads, detector>>
    \/ StreamStart /\ UNCHANGED <<threads, detector>>
    \/ StreamFinish /\ UNCHANGED <<threads, detector>>
    \/ StreamTick(MaxEvents) /\ UNCHANGED <<threads, detector>>
    \/ CloseStream /\ UNCHANGED <<threads, detector>>

SpecSync == InitSync /\ [][NextSync]_vars

\* start, play and one stream, nothing else
InitPlayback == InitWith(PlaybackStores) /\ DetectorIdle

PlaybackCap == 2 * MaxSyncM1 + MaxHeartbeats

NextPlayback ==
    \/ NotLoaded /\ ApiStartReplay(Some(0), DefaultSpeed) /\ UNCHANGED <<threads, detector>>
    \/ ~NotLoaded /\ ~is_playing /\ pc # "done" /\ PlayReplay
           /\ UNCHANGED <<threads, detector>>
    \/ pc = "none" /\ OpenStream /\ UNCHANGED <<threads, detector>>
    \/ StreamStart /\ UNCHANGED <<threads, detector>>
    \/ StreamFinish /\ UNCHANGED <<threads, detector>>
    \/ StreamHeartbeat(PlaybackCap) /\ UNCHANGED <<threads, detector>>
    \/ StreamTick(PlaybackCap) /\ UNCHANGED <<threads, detector>>

SpecPlayback == InitPlayback /\ [][NextPlayback]_vars

\* one stream, its generator interleaved statement by statement with every
\* command
InitRace == InitWith(RaceStores) /\ DetectorIdle

NextRace ==
    \/ CmdStart(Some(0), DefaultSpeed) /\ UNCHANGED detector
    \/ ~NotLoaded /\ ~is_playing /\ PlayReplay /\ UNCHANGED <<threads, detector>>
    \/ is_playing /\ PauseReplay /\ UNCHANGED <<threads, detector>>
    \/ CmdStop /\ UNCHANGED detector
    \/ (\E index \in 0..(MaxRaceM1 - 1) : CmdSeek(index)) /\ UNCHANGED detector
    \/ GenOpen("a")
    \/ GenStep("a", MaxRaceEvents)

SpecRace == InitRace /\ [][NextRace]_vars

\* events after which a generator of two starts no further iteration: room
\* for a second tick
TwoCap == MaxRaceEvents + 2

\* two streams on one session that is started and played once
NextTwo ==
    \/ NotLoaded /\ CmdStart(Some(0), DefaultSpeed) /\ UNCHANGED detector
    \/ ~NotLoaded /\ ~is_playing /\ PlayReplay /\ UNCHANGED <<threads, detector>>
    \/ \E s \in Streams : GenOpen(s)
    \/ \E s \in Streams : GenStep(s, TwoCap)

SpecTwo == InitRace /\ [][NextTwo]_vars

\* one stream, its generator interleaved statement by statement with the
\* commands of one session and with set_speed
NextSpeed ==
    \/ NotLoaded /\ CmdStart(Some(0), DefaultSpeed) /\ UNCHANGED detector
    \/ ~NotLoaded /\ ~is_playing /\ PlayReplay /\ UNCHANGED <<threads, detector>>
    \/ is_playing /\ PauseReplay /\ UNCHANGED <<threads, detector>>
    \/ ~NotLoaded /\ CmdStop /\ UNCHANGED detector
    \/ (\E spd \in SpeedInputs : CmdSetSpeed(spd)) /\ UNCHANGED detector
    \/ GenOpen("a")
    \/ GenStep("a", MaxRaceEvents)

SpecSpeed == InitRace /\ [][NextSpeed]_vars

\* one session with one stream that is played to its end, and one seek at
\* any moment of it; pending_seek keeps the target of that seek
\* room for the events of two passes over the M1 series
SeekOnceCap == 4 * MaxSyncM1

NextSeekOnce ==
    \/ NotLoaded /\ ApiStartReplay(Some(0), DefaultSpeed)
           /\ UNCHANGED <<threads, detector>>
    \/ ~NotLoaded /\ ~is_playing /\ pc # "done" /\ PlayReplay
           /\ UNCHANGED <<threads, detector>>
    \/ pending_seek = -1 /\ (\E index \in 0..(MaxSyncM1 - 1) : CmdSeek(index))
           /\ UNCHANGED detector
    \/ pc = "none" /\ OpenStream /\ UNCHANGED <<threads, detector>>
    \/ StreamStart /\ UNCHANGED <<threads, detector>>
    \/ StreamFinish /\ UNCHANGED <<threads, detector>>
    \/ StreamTick(SeekOnceCap) /\ UNCHANGED <<threads, detector>>

SpecSeekOnce == InitSync /\ [][NextSeekOnce]_vars

\* the gap detector on every series of up to MaxFvgLen candles, built candle
\* by candle
InitFvg == InitWith(RaceStores) /\ DetectorIdle

NextFvg ==
    \/ \E candle \in FvgCandles : ExtendSeries(candle)
    \/ CallDetectFvgsVectorized
    \/ CallDetectFvgs

SpecFvg == InitFvg /\ [][NextFvg]_vars

\* the gap detector on series longer than its clearance search: one gap, the
\* price staying where it is, moving once, and staying there
InitFvgLong ==
    /\ InitWith(RaceStores)
    /\ df \in {BullishTriple, BearishTriple}
    /\ fvgs = None
    /\ continuity = None
    /\ filled = None

NextFvgLong ==
    \/ ExtendQuiet
    \/ \E price \in LongPrices : ExtendMove(price)
    \/ CallDetectFvgsVectorized
    \/ CallDetectFvgs

SpecFvgLong == InitFvgLong /\ [][NextFvgLong]_vars

\* the continuity checker on every series of up to MaxContLen candles
InitContinuity == InitWith(RaceStores) /\ DetectorIdle

NextContinuity ==
    \/ \E delta \in ContinuityDeltas : ExtendByDelta(delta)
    \/ \E timeframe \in ContinuityTimeframes : CallCheckContinuity(timeframe)

SpecContinuity == InitContinuity /\ [][NextContinuity]_vars

\* fill_missing_candles and check_continuity on series of up to MaxFillLen
\* candles of one timeframe
InitFill == InitWith(RaceStores) /\ DetectorIdle

NextFill ==
    \/ \E candle \in FillCandles, delta \in FillDeltas :
           ExtendCandle(candle, delta)
    \/ \E timeframe \in FillTimeframes : CallFillMissingCandles(timeframe)
    \/ \E timeframe \in FillTimeframes :
           IsSeriesOf(timeframe) /\ CallCheckContinuity(timeframe)

SpecFill == InitFill /\ [][NextFill]_vars

-----------------------------------------------------------------------------
(* Helpers of the properties *)

EventType(e) == IF "type" \in DOMAIN e THEN e.type ELSE "error"

EventsOfType(type) == SelectSeq(events, LAMBDA e : EventType(e) = type)

FinishedPositions ==
    {i \in 1..Len(events) : EventType(events[i]) = "finished"}

\* the multi_timeframe_candle event of the tick that ran last
TickEvent ==
    LET ms == EventsOfType("multi_timeframe_candle") IN ms[Len(ms)]

TickAfterSeek == last.op = "tick" /\ last.seek_before # -1

-----------------------------------------------------------------------------
(* C1 *)

\* C1: after start and play and no other command, the candle events of one
\* stream carry the primary indices 0, 1, ..., total_candles - 1 in this
\* order; a finished event comes only after the candle total_candles - 1, it
\* is the last event of the stream, and a stream that ran to its end on a
\* loaded session has exactly one.
C1_PlaybackIndices ==
    LET multi == EventsOfType("multi_timeframe_candle")
        legacy == EventsOfType("candle")
    IN /\ \A i \in 1..Len(multi) : multi[i].index = i - 1
       /\ \A i \in 1..Len(legacy) : legacy[i].index = i - 1
       /\ \A i \in FinishedPositions :
              i = Len(events) /\ Len(multi) = total_candles
       /\ (pc = "done" /\ events[1] # NotLoadedEvent)
              => Cardinality(FinishedPositions) = 1

C1_Witness ==
    /\ pc = "done"
    /\ total_candles >= 3
    /\ Len(EventsOfType("multi_timeframe_candle")) = total_candles
    /\ events[Len(events)] = FinishedEvent
    /\ Len(EventsOfType("heartbeat")) >= 1

-----------------------------------------------------------------------------
(* C2 *)

\* C2: after start_replay fails for a date without M1 candles the session is
\* Idle: get_status shows no loaded timeframe and no cursor, is_playing is
\* false and no replay data is loaded (so play_replay fails).
C2_FailedStartIsIdle ==
    (last.op = "start" /\ last.status = "error")
        => /\ GetStatus.loaded_timeframes = {}
           /\ GetStatus.timeframe_indices = EmptyDict
           /\ ~GetStatus.is_playing
           /\ replay_data = None

-----------------------------------------------------------------------------
(* C3 *)

\* C3: the tick that runs right after a successful seek_to_index(k) emits a
\* multi_timeframe_candle event with index k whose M1 snapshot has index k
\* and the timestamp of primary candle k.
C3_SeekThenTick ==
    TickAfterSeek
        => LET k == last.seek_before
               e == TickEvent
           IN /\ e.index = k
              /\ e.timestamp = Iloc(replay_data[1], k).timestamp
              /\ "M1" \in DOMAIN e.timeframes
              /\ e.timeframes["M1"].index = k
              /\ e.timeframes["M1"].timestamp = Iloc(replay_data[1], k).timestamp
              /\ events[Len(events)] = LegacyCandleEvent(e.timeframes["M1"])

C3_Witness ==
    /\ TickAfterSeek
    /\ last.seek_before = 3
    /\ TickEvent.index = 3
    /\ TickEvent.timeframes["M1"].timestamp = 540

-----------------------------------------------------------------------------
(* C4 *)

CoarseLoaded ==
    {CoarseTimeframes[i] : i \in 1..Len(CoarseTimeframes)} \cap DOMAIN timeframe_data

\* among the positions W of a series: the lowest one whose span contains t,
\* else the one with the largest timestamp <= t, else -1
Expected(rows, tf_duration, t, W) ==
    LET inside == {p \in W : /\ Iloc(rows, p).timestamp <= t
                             /\ t < Iloc(rows, p).timestamp + tf_duration}
        before == {p \in W : Iloc(rows, p).timestamp <= t}
    IN IF inside # {}
       THEN CHOOSE p \in inside : \A q \in inside : p <= q
       ELSE IF before # {}
            THEN CHOOSE p \in before :
                     \A q \in before :
                         Iloc(rows, q).timestamp <= Iloc(rows, p).timestamp
            ELSE -1

WholeSeries(rows) == 0..(Len(rows) - 1)

Window(rows, cursor) ==
    {p \in WholeSeries(rows) : cursor - 2 <= p /\ p <= cursor + 2}

\* C4 as claimed: the tick right after a successful seek emits, for every
\* loaded coarser timeframe, the candle of the whole series whose span
\* contains the primary timestamp, or else the one with the largest
\* timestamp at or before it.
C4_SeekSyncWholeSeries ==
    TickAfterSeek
        => \A tf \in CoarseLoaded :
               LET e == TickEvent
                   g == Expected(timeframe_data[tf], TimeframeDurationSeconds(tf),
                                 e.timestamp, WholeSeries(timeframe_data[tf]))
               IN g # -1 => /\ tf \in DOMAIN e.timeframes
                            /\ e.timeframes[tf].index = g

\* C4 amended: the tick right after a successful seek emits, for every loaded
\* coarser timeframe with cursor c before the tick, the lowest-positioned
\* candle among positions max(0, c-2) .. min(len-1, c+2) whose span contains
\* the primary timestamp t, or else the candle of that window with the
\* largest timestamp <= t; the timeframe is omitted when the window holds no
\* candle at or before t.
C4_SeekSyncWindow ==
    [][(last'.op = "tick" /\ last'.seek_before # -1)
          => \A tf \in CoarseLoaded :
                 LET rows == timeframe_data[tf]
                     t == Iloc(replay_data[1], current_index).timestamp
                     w == Expected(rows, TimeframeDurationSeconds(tf), t,
                                   Window(rows, timeframe_indices[tf]))
                     e == TickEvent'
                 IN IF w = -1
                    THEN tf \notin DOMAIN e.timeframes
                    ELSE /\ tf \in DOMAIN e.timeframes
                         /\ e.timeframes[tf].index = w
                         /\ e.timeframes[tf].timestamp = Iloc(rows, w).timestamp
      ]_vars

\* a tick after a seek whose M5 snapshot is not the candle containing t,
\* although the series has one
C4_Witness ==
    /\ TickAfterSeek
    /\ "M5" \in DOMAIN TickEvent.timeframes
    /\ LET g == Expected(timeframe_data["M5"], TimeframeDurationSeconds("M5"),
                         TickEvent.timestamp, WholeSeries(timeframe_data["M5"]))
       IN /\ TickEvent.timeframes["M5"].index # g
          /\ Contains(Iloc(timeframe_data["M5"], g).timestamp,
                      TimeframeDurationSeconds("M5"), TickEvent.timestamp)

-----------------------------------------------------------------------------
(* C5 *)

UniformlySpaced(rows, tf_duration) ==
    \A i \in 1..(Len(rows) - 1) :
        rows[i + 1].timestamp - rows[i].timestamp = tf_duration

\* C5: in forward playback from a fresh start with no seek, for a coarser
\* series spaced by its duration d, every tick whose primary timestamp lies
\* in [T, T + d) of a loaded candle starting at T emits exactly that candle
\* for the timeframe.
C5_ForwardContaining ==
    last.op = "tick"
        => \A tf \in CoarseLoaded :
               LET rows == timeframe_data[tf]
                   d == TimeframeDurationSeconds(tf)
                   e == TickEvent
               IN UniformlySpaced(rows, d)
                  => \A p \in WholeSeries(rows) :
                         Contains(Iloc(rows, p).timestamp, d, e.timestamp)
                             => /\ tf \in DOMAIN e.timeframes
                                /\ e.timeframes[tf].index = p
                                /\ e.timeframes[tf].timestamp
                                       = Iloc(rows, p).timestamp

-----------------------------------------------------------------------------
(* C6 *)

\* C6: a set-speed or start request whose speed is outside {0.5, 1, 2, 3, 5,
\* 10} is rejected by the request layer and changes no field of the session,
\* its speed included.
C6_InvalidSpeedRejected ==
    [][\A spd \in SpeedInputs \ {5, 10, 20, 30, 50, 100} :
           (\/ ApiSetReplaySpeed(spd)
            \/ \E date \in DateInputs : ApiStartReplay(date, spd))
               => /\ last'.status = "rejected"
                  /\ UNCHANGED session
      ]_vars

\* a start with an unsupported speed was rejected on a loaded session whose
\* speed had been set to 3 s
C6_Witness ==
    /\ last.op = "start"
    /\ last.status = "rejected"
    /\ last.arg = 1
    /\ replay_data # None
    /\ timeframe_indices["M1"] = 1
    /\ speed = 30

-----------------------------------------------------------------------------
(* C7 *)

\* C7: on a loaded session seek_to_index(index) sets the primary cursor to
\* index iff 0 <= index < total primary candles, and otherwise returns an
\* error and leaves it; in both cases no timeframe cursor, is_playing and
\* speed stay as they were.
C7_SeekEffect ==
    [][(last'.op = "seek" /\ replay_data # None)
          => LET index == last'.arg
             IN /\ IF 0 <= index /\ index < Len(replay_data[1])
                   THEN last'.status = "seeked" /\ current_index' = index
                   ELSE last'.status = "error" /\ current_index' = current_index
                /\ timeframe_indices' = timeframe_indices
                /\ is_playing' = is_playing
                /\ speed' = speed
      ]_vars

\* a seek to index = total candles failed on a playing session
C7_Witness ==
    /\ last.op = "seek"
    /\ last.status = "error"
    /\ replay_data # None
    /\ last.arg = Len(replay_data[1])
    /\ current_index # last.arg
    /\ is_playing

-----------------------------------------------------------------------------
(* C8 *)

\* C8: play_replay fails and leaves is_playing false whenever no replay data
\* is loaded; on a loaded session it sets is_playing and changes no cursor.
C8_PlayEffect ==
    [][last'.op = "play"
          => IF replay_data = None
             THEN /\ last'.status = "error"
                  /\ ~is_playing'
                  /\ UNCHANGED session
             ELSE /\ last'.status = "playing"
                  /\ is_playing'
                  /\ current_index' = current_index
                  /\ timeframe_indices' = timeframe_indices
      ]_vars

\* play failed after a start that failed and left coarser series behind
C8_Witness ==
    /\ last.op = "play"
    /\ last.status = "error"
    /\ ~is_playing
    /\ timeframe_data # EmptyDict

-----------------------------------------------------------------------------
(* C9 *)

InitialStatus ==
    [is_playing |-> FALSE,
     current_date |-> None,
     current_index |-> 0,
     total_candles |-> 0,
     speed |-> DefaultSpeed,
     loaded_timeframes |-> {},
     current_m1_timestamp |-> None,
     timeframe_indices |-> EmptyDict]

\* C9: after stop_replay no series and no cursor is held, the subscriber list
\* is empty, the primary cursor is 0, is_playing is false, and get_status
\* equals that of a never-started session in everything but speed.
C9_StopIsIdle ==
    last.op = "stop"
        => /\ timeframe_data = EmptyDict
           /\ timeframe_indices = EmptyDict
           /\ replay_data = None
           /\ subscribers = <<>>
           /\ current_index = 0
           /\ ~is_playing
           /\ [GetStatus EXCEPT !.speed = DefaultSpeed] = InitialStatus

-----------------------------------------------------------------------------
(* C10 *)

CandlesOn(timeframe, date) ==
    IF timeframe \in DOMAIN loaded_data
    THEN {i \in 1..Len(loaded_data[timeframe]) :
              loaded_data[timeframe][i].timestamp \div 86400 = date}
    ELSE {}

\* C10: a successful start_replay(date, speed) leaves every loaded cursor and
\* the primary cursor at 0, speed at the given value, is_playing false,
\* total_candles at the number of M1 candles of the date, and series and
\* cursors for exactly the timeframes with candles on that date, each
\* holding only candles of that date.
C10_StartIsReady ==
    (last.op = "start" /\ last.status = "ready")
        => LET date == last.arg
           IN /\ current_index = 0
              /\ speed = last.given_speed
              /\ ~is_playing
              /\ total_candles = Cardinality(CandlesOn("M1", date))
              /\ total_candles > 0
              /\ current_date = Some(date)
              /\ DOMAIN timeframe_data
                     = {tf \in DOMAIN loaded_data : CandlesOn(tf, date) # {}}
              /\ DOMAIN timeframe_indices = DOMAIN timeframe_data
              /\ \A tf \in DOMAIN timeframe_data :
                     /\ timeframe_indices[tf] = 0
                     /\ Len(timeframe_data[tf]) = Cardinality(CandlesOn(tf, date))
                     /\ \A i \in 1..Len(timeframe_data[tf]) :
                            timeframe_data[tf][i].timestamp \div 86400 = date
              /\ replay_data = Some(timeframe_data["M1"])

\* a session was started on day 1, which has no H1 candle although the store
\* has M1 and H1 candles on day 0
C10_Witness ==
    /\ last.op = "start"
    /\ last.status = "ready"
    /\ last.arg = 1
    /\ speed = 30
    /\ total_candles = 1
    /\ "H1" \notin DOMAIN timeframe_data
    /\ CandlesOn("H1", 0) # {}
    /\ CandlesOn("M1", 0) # {}

-----------------------------------------------------------------------------
(* C11 *)

\* C11: pause_replay sets is_playing to false, returns the primary index and
\* changes nothing else: the primary cursor, every per-timeframe cursor, the
\* series and the speed are as before; a play_replay that follows it on a
\* loaded session sets is_playing and leaves the primary cursor at the index
\* the pause returned, so the next tick reads that candle.
C11_PauseKeepsCursors ==
    [][/\ last'.op = "pause"
           => /\ ~is_playing'
              /\ last'.arg = current_index
              /\ UNCHANGED <<current_index, timeframe_indices, timeframe_data,
                             replay_data, current_m1_timestamp, current_date,
                             total_candles, speed, subscribers>>
       /\ (last.op = "pause" /\ last'.op = "play" /\ ~NotLoaded)
           => /\ is_playing'
              /\ last'.status = "playing"
              /\ current_index' = last.arg
              /\ UNCHANGED timeframe_indices]_vars

\* a pause of a playing session after a tick had moved the primary cursor
C11_Witness ==
    /\ last.op = "pause"
    /\ last.arg >= 1
    /\ current_index = last.arg
    /\ ~is_playing
    /\ ~NotLoaded
    /\ timeframe_indices["M1"] = 0

-----------------------------------------------------------------------------
(* C12 *)

\* C12: whenever the session is loaded and not playing, an iteration of the
\* stream loop yields exactly one event, a heartbeat, and changes no field of
\* the session; the primary cursor may be anywhere, also at total_candles.
C12_PausedIterationIsHeartbeat ==
    [][(pc = "loop" /\ ~NotLoaded /\ ~is_playing /\ events' # events)
           => /\ events' = Append(events, HeartbeatEvent)
              /\ UNCHANGED session]_vars

-----------------------------------------------------------------------------
(* C13 *)

IsErrorEvent(e) == "type" \in DOMAIN e /\ e.type = "error"

Running(s) == gens[s].pc \notin {"none", "done", "crashed"}

Faulted(s) == \E i \in 1..Len(gens[s].events) : IsErrorEvent(gens[s].events[i])

\* C13: an error event that a faulting tick yields is the last event of its
\* stream: no candle, heartbeat or finished event comes after it.
C13_ErrorIsLast ==
    \A s \in Streams :
        \A i \in 1..Len(gens[s].events) :
            IsErrorEvent(gens[s].events[i]) => i = Len(gens[s].events)

-----------------------------------------------------------------------------
(* C14 *)

\* C14: when a stream that yielded an error event ends, the session still
\* holds its series, the primary cursor is the one the loop condition of the
\* failed tick saw, and is_playing is false.
C14_FaultKeepsSession ==
    [][\A s \in Streams :
           (Faulted(s) /\ gens[s].pc = "epilogue" /\ gens'[s].pc = "done")
               => /\ replay_data' # None
                  /\ "M1" \in DOMAIN timeframe_data'
                  /\ current_index' = gens[s].index
                  /\ ~is_playing']_vars

-----------------------------------------------------------------------------
(* C15 *)

\* C15: a command that runs while a tick is under way has the effect it has
\* before or after the tick: no stream gets an error event from a stop, a
\* stopped session holds no cursor entry and its primary cursor is 0, and the
\* target of a successful seek stays the primary cursor until a tick reads
\* that candle.
C15_CommandsAtomic ==
    /\ \A s \in Streams : ~Faulted(s)
    /\ NotLoaded => (timeframe_indices = EmptyDict /\ current_index = 0)
    /\ pending_seek # -1 => current_index = pending_seek

-----------------------------------------------------------------------------
(* C16 *)

\* C16: a generator that existed when stop_replay ran (called directly or by
\* start_replay) yields no candle event in an iteration it begins after that
\* stop, whatever session is loaded by then.
C16_NoCandleAfterStop ==
    \A s \in Streams : gens[s].after_stop # "candle"

-----------------------------------------------------------------------------
(* C17 *)

\* C17: of the generators that run on a session at the same time, at most
\* one has advanced its primary cursor.
C17_OneLoopAdvances ==
    Cardinality({s \in Streams : Running(s) /\ gens[s].advanced}) <= 1

-----------------------------------------------------------------------------
(* C18 *)

\* what detect_fvgs_vectorized returned
Vectorized == fvgs # None /\ fvgs[1].entry = "detect_fvgs_vectorized"

Returned == fvgs[1].value

\* the positions in the returned list of the gaps of one kind confirmed at i
GapsAt(type, i) ==
    {k \in 1..Len(Returned) :
        Returned[k].type = type /\ Returned[k].detectionIndex = i}

-----------------------------------------------------------------------------
(* C19 *)

-----------------------------------------------------------------------------
(* C20 *)

\* C20: for a series of fewer than three candles, the empty one included,
\* either entry point of the detector returns the empty list and raises
\* nothing.
C20_ShortSeriesEmpty ==
    (fvgs # None /\ Len(df) < 3)
        => (~fvgs[1].raised /\ fvgs[1].value = <<>>)

\* two candles that would open a gap, handed to detect_fvgs_vectorized
C20_Witness ==
    /\ Vectorized
    /\ Len(df) = 2
    /\ df[2].Close > df[2].Open
    /\ df[2].Close > df[1].High

-----------------------------------------------------------------------------
(* C21 *)

\* C21: every gap either entry point of the detector returns, bullish or
\* bearish, has bottomPrice < topPrice.
C21_BottomBelowTop ==
    fvgs # None =>
        \A k \in 1..Len(Returned) :
            Returned[k].bottomPrice < Returned[k].topPrice

\* a series in which detect_fvgs finds a bearish gap one price level high
C21_Witness ==
    /\ fvgs # None
    /\ fvgs[1].entry = "detect_fvgs"
    /\ \E k \in 1..Len(Returned) :
           /\ Returned[k].type = "bearish"
           /\ Returned[k].topPrice = Returned[k].bottomPrice + 1

-----------------------------------------------------------------------------
(* C22 *)

\* C22: every gap detect_fvgs_vectorized returns with a clearedIndex has
\* detectionIndex < clearedIndex <= detectionIndex + 40 and
\* clearedIndex < len(series).
C22_ClearedIndexRange ==
    Vectorized =>
        \A k \in 1..Len(Returned) :
            "clearedIndex" \in DOMAIN Returned[k] =>
                /\ Returned[k].detectionIndex < Returned[k].clearedIndex
                /\ Returned[k].clearedIndex
                       <= Returned[k].detectionIndex + 40
                /\ Returned[k].clearedIndex < Len(df)

\* a gap cleared by the last candle the search reads, with one more candle
\* after it
C22_Witness ==
    /\ Vectorized
    /\ \E k \in 1..Len(Returned) :
           /\ "clearedIndex" \in DOMAIN Returned[k]
           /\ Returned[k].clearedIndex = Returned[k].detectionIndex + 40
           /\ Returned[k].clearedIndex < Len(df) - 1

-----------------------------------------------------------------------------
(* C23 *)

\* the positions among the up to 40 candles after the detection index of
\* gap whose close is below bottomPrice (bullish) or above topPrice (bearish)
ClearingPositions(gap) ==
    {j \in (gap.detectionIndex + 1)..Min(gap.detectionIndex + 40,
                                         Len(df) - 1) :
        IF gap.type = "bullish"
        THEN Iloc(df, j).Close < gap.bottomPrice
        ELSE Iloc(df, j).Close > gap.topPrice}

\* C23: a returned gap has status 'cleared' exactly if one of the up to 40
\* candles after its detectionIndex closes below bottomPrice (bullish) or
\* above topPrice (bearish), and clearedIndex is then the smallest such
\* position; otherwise its status is 'valid' and it has no clearedIndex.
\* Candles further away have no effect.
C23_ClearedIffFirstBeyond ==
    fvgs # None =>
        \A k \in 1..Len(Returned) :
            LET gap == Returned[k]
            IN IF ClearingPositions(gap) # {}
               THEN /\ gap.status = "cleared"
                    /\ "clearedIndex" \in DOMAIN gap
                    /\ gap.clearedIndex \in ClearingPositions(gap)
                    /\ \A j \in ClearingPositions(gap) :
                           gap.clearedIndex <= j
               ELSE /\ gap.status = "valid"
                    /\ "clearedIndex" \notin DOMAIN gap

\* a gap cleared before the end of the search with later candles beyond the
\* level too
C23_Witness ==
    /\ fvgs # None
    /\ \E k \in 1..Len(Returned) :
           /\ Returned[k].status = "cleared"
           /\ Cardinality(ClearingPositions(Returned[k])) > 1
           /\ Returned[k].clearedIndex > Returned[k].detectionIndex + 1

-----------------------------------------------------------------------------
(* C24 *)

\* what check_continuity returned, and the timeframe it was called with
Checked == continuity[1].result

CheckedDuration == TimeframeDurationSeconds(continuity[1].timeframe)

\* the seconds from the candle at position i to the next one
Delta(i) == Iloc(df, i + 1).timestamp - Iloc(df, i).timestamp

\* C24: a series whose consecutive timestamps all differ by the timeframe's
\* duration s is reported continuous with no gap; with exactly one delta
\* replaced by 3s, exactly one gap is reported, at the position before the
\* enlarged delta, with the two timestamps around it as from_time and
\* to_time, and its reported duration (gap_minutes, in minutes) is the
\* inserted delta.
C24_UniformAndOneGap ==
    continuity # None =>
        LET s == CheckedDuration
            positions == 0..(Len(df) - 2)
        IN /\ (\A i \in positions : Delta(i) = s)
                  => (Checked.is_continuous /\ Checked.gaps = <<>>)
           /\ \A p \in positions :
                  (/\ Delta(p) = 3 * s
                   /\ \A i \in positions \ {p} : Delta(i) = s)
                      => /\ Len(Checked.gaps) = 1
                         /\ Checked.gaps[1].index = p
                         /\ Checked.gaps[1].from_time = Iloc(df, p).timestamp
                         /\ Checked.gaps[1].to_time
                                = Iloc(df, p + 1).timestamp
                         /\ Checked.gaps[1].gap_minutes * 60 = 3 * s

\* an M5 series of four candles with the second delta tripled
C24_Witness ==
    /\ continuity # None
    /\ continuity[1].timeframe = "M5"
    /\ Len(df) = 4
    /\ Delta(0) = 300 /\ Delta(1) = 900 /\ Delta(2) = 300
    /\ Checked.total_gaps = 1

-----------------------------------------------------------------------------
(* C25 *)

\* C25: check_continuity reports a gap at position i exactly if
\* timestamp[i+1] - timestamp[i] is more than 1.5 times the timeframe's
\* duration in seconds; is_continuous says that the gap list is empty,
\* total_gaps is its length, and a series of fewer than two candles is
\* continuous without gaps.
C25_GapIffBeyondOneAndAHalf ==
    continuity # None =>
        /\ \A i \in 0..(Len(df) - 2) :
               (\E k \in 1..Len(Checked.gaps) : Checked.gaps[k].index = i)
                   <=> 2 * Delta(i) > 3 * CheckedDuration
        /\ \A k \in 1..Len(Checked.gaps) :
               Checked.gaps[k].index \in 0..(Len(df) - 2)
        /\ Checked.is_continuous <=> Checked.gaps = <<>>
        /\ Checked.total_gaps = Len(Checked.gaps)
        /\ Len(df) < 2 => (Checked.is_continuous /\ Checked.gaps = <<>>)

\* an M1 series with a delta of exactly 90 seconds, which is no gap, and a
\* delta of 100 seconds, which is the only one
C25_Witness ==
    /\ continuity # None
    /\ continuity[1].timeframe = "M1"
    /\ Len(df) = 3
    /\ Delta(0) = 90 /\ Delta(1) = 100
    /\ Checked.total_gaps = 1
    /\ Checked.gaps[1].index = 1

-----------------------------------------------------------------------------
(* C26 *)

\* a request thread has run set_speed, through the route that checks it
SetSpeedStep == last' # last /\ last'.op = "set_speed"

\* the generator calls time.sleep
SleepBegins(s) == gens[s].pc = "sleep" /\ gens'[s].pc = "sleeping"

\* C26: set_speed with a supported value succeeds in whatever state the
\* session is, changes the speed field and nothing else of the session, and
\* a sleep between ticks that begins after it takes the new value, while a
\* sleep in progress keeps the value it began with.
C26_SetSpeedEffect ==
    [][/\ (SetSpeedStep /\ SpeedAllowed(last'.arg))
           => /\ last'.status = "speed_updated"
              /\ speed' = last'.arg
              /\ UNCHANGED <<loaded_data, is_playing, current_date,
                             current_index, total_candles, subscribers,
                             timeframe_data, timeframe_indices,
                             current_m1_timestamp, replay_data, gens>>
       /\ \A s \in Streams :
              /\ SleepBegins(s) => gens'[s].sleep = speed
              /\ (SleepBegins(s) /\ last.op = "set_speed"
                      /\ last.status = "speed_updated")
                     => gens'[s].sleep = last.arg
              /\ (gens[s].pc = "sleeping" /\ gens'[s].pc = "sleeping")
                     => gens'[s].sleep = gens[s].sleep]_vars

\* set_speed ran while the generator was in a sleep of the old value
C26_Witness ==
    /\ gens["a"].pc = "sleeping"
    /\ gens["a"].sleep = DefaultSpeed
    /\ last.op = "set_speed"
    /\ last.status = "speed_updated"
    /\ speed = 30

-----------------------------------------------------------------------------
(* C27 *)

\* the generator has run one playing iteration
TickStep == last' # last /\ last'.op = "tick"

\* the cursor the synchronization reads for a timeframe
Cursor(indices, tf) == DictGet(indices, tf, 0)

\* C27: for a coarser timeframe with cursor c and primary timestamp t, a
\* tick selects among positions max(0, c-2) .. min(len-1, c+2) the lowest
\* candle with ts <= t < ts + d, else the candle of the window with the
\* largest ts <= t, else nothing; the cursor becomes the selected position,
\* and stays as it is when nothing is selected.
C27_WindowSelection ==
    [][TickStep
          => \A tf \in CoarseLoaded :
                 LET rows == timeframe_data[tf]
                     c == Cursor(timeframe_indices, tf)
                     t == Iloc(replay_data[1], current_index).timestamp
                     w == Expected(rows, TimeframeDurationSeconds(tf), t,
                                   Window(rows, c))
                     e == TickEvent'
                 IN IF w = -1
                    THEN /\ tf \notin DOMAIN e.timeframes
                         /\ Cursor(timeframe_indices', tf) = c
                    ELSE /\ tf \in DOMAIN e.timeframes
                         /\ e.timeframes[tf].timestamp = Iloc(rows, w).timestamp
                         /\ e.timeframes[tf].index = w
                         /\ Cursor(timeframe_indices', tf) = w
      ]_vars

\* a tick that found no M5 candle containing t and took the latest one
\* before t, two positions after the start
C27_Witness ==
    /\ last.op = "tick"
    /\ "M5" \in DOMAIN TickEvent.timeframes
    /\ TickEvent.timeframes["M5"].index = 2
    /\ TickEvent.timeframes["M5"].timestamp + 300 <= TickEvent.timestamp

-----------------------------------------------------------------------------
(* C28 *)

\* C28: in the multi_timeframe_candle event of a tick, every snapshot of a
\* coarser timeframe has a timestamp <= the primary timestamp t and the
\* index the timeframe's cursor has after the tick; a loaded timeframe is
\* missing from the mapping exactly if no candle of its search window has a
\* timestamp <= t.
C28_SnapshotAtOrBefore ==
    [][TickStep
          => LET e == TickEvent'
                 t == Iloc(replay_data[1], current_index).timestamp
             IN /\ e.timestamp = t
                /\ DOMAIN e.timeframes \subseteq CoarseLoaded \cup {"M1"}
                /\ \A tf \in CoarseLoaded :
                       LET rows == timeframe_data[tf]
                           c == Cursor(timeframe_indices, tf)
                       IN /\ tf \in DOMAIN e.timeframes
                              => /\ e.timeframes[tf].timestamp <= t
                                 /\ tf \in DOMAIN timeframe_indices'
                                 /\ e.timeframes[tf].index
                                        = timeframe_indices'[tf]
                          /\ tf \notin DOMAIN e.timeframes
                              <=> \A p \in Window(rows, c) :
                                      Iloc(rows, p).timestamp > t
      ]_vars

\* a tick whose event has an M5 snapshot at a later position and no M15
\* snapshot, with M15 loaded
C28_Witness ==
    /\ last.op = "tick"
    /\ "M15" \in CoarseLoaded
    /\ "M15" \notin DOMAIN TickEvent.timeframes
    /\ "M5" \in DOMAIN TickEvent.timeframes
    /\ TickEvent.timeframes["M5"].index > 0

-----------------------------------------------------------------------------
(* C29 *)

\* C29: in playback without seek, on series with strictly increasing
\* timestamps, no tick lowers the cursor of a coarser timeframe.
C29_CursorsNeverDecrease ==
    [][TickStep
          => \A tf \in CoarseLoaded :
                 Cursor(timeframe_indices', tf)
                     >= Cursor(timeframe_indices, tf)
      ]_vars

\* the M5 cursor has moved by two positions in one tick and then further
C29_Witness ==
    /\ last.op = "tick"
    /\ "M5" \in CoarseLoaded
    /\ Cursor(timeframe_indices, "M5") = 3
    /\ current_index = 2

-----------------------------------------------------------------------------
(* C30 *)

\* C30, its second half: the stream yields 'finished' only when the session
\* is playing and the primary cursor has reached the end of the loaded
\* primary series.
C30_FinishedOnlyAtEnd ==
    [][(last' # last /\ last'.op = "finished")
          => /\ is_playing
             /\ replay_data # None
             /\ current_index = Len(replay_data[1])
      ]_vars

-----------------------------------------------------------------------------
(* C31 *)

\* the ticks that have run since the one seek of the session
TicksSinceSeek == current_index - pending_seek

\* every coarser cursor is at the candle whose span contains the primary
\* timestamp of the last tick, where the series has such a candle
CursorsCaughtUp ==
    \A tf \in CoarseLoaded :
        \A p \in WholeSeries(timeframe_data[tf]) :
            Contains(Iloc(timeframe_data[tf], p).timestamp,
                     TimeframeDurationSeconds(tf), TickEvent.timestamp)
                => Cursor(timeframe_indices, tf) = p

\* C31: after a seek, forward or backward and of any size, with ticks and
\* no further command, every coarser cursor is back at the candle that
\* contains the primary timestamp within a number of ticks that does not
\* depend on the seek: here, from the second tick after the seek on.
C31_CaughtUpAfterSeek ==
    (pending_seek # -1 /\ last.op = "tick" /\ TicksSinceSeek >= 2)
        => CursorsCaughtUp

-----------------------------------------------------------------------------
(* C32 *)

\* the legacy event events[i + 1] echoes the M1 snapshot of events[i]
EchoesM1(multi, legacy) ==
    /\ EventType(legacy) = "candle"
    /\ "M1" \in DOMAIN multi.timeframes
    /\ legacy.index = multi.timeframes["M1"].index
    /\ legacy.timestamp = multi.timeframes["M1"].timestamp

\* C32: every multi_timeframe_candle event of a stream is followed at once
\* by one legacy candle event with the index and timestamp of its M1
\* snapshot (it is the last event only while the generator is at the yield
\* of the legacy event), and the primary cursor is advanced only when both
\* have been emitted.
C32_LegacyEchoThenAdvance ==
    [][\A s \in Streams :
          LET ev == gens'[s].events
              n == Len(ev)
          IN /\ \A i \in 1..n :
                    EventType(ev[i]) = "multi_timeframe_candle"
                        => IF i < n
                           THEN /\ EchoesM1(ev[i], ev[i + 1])
                                /\ (i + 2 <= n
                                        => EventType(ev[i + 2]) # "candle")
                           ELSE gens'[s].pc = "legacy"
             /\ \A i \in 1..n :
                    EventType(ev[i]) = "candle"
                        => i > 1 /\ EventType(ev[i - 1])
                                       = "multi_timeframe_candle"
             /\ (gens[s].pc = "store" /\ current_index' # current_index)
                    => /\ n >= 2
                       /\ EventType(ev[n - 1]) = "multi_timeframe_candle"
                       /\ EchoesM1(ev[n - 1], ev[n])
                       /\ current_index' = ev[n].index + 1
      ]_vars

-----------------------------------------------------------------------------
(* C33 *)

\* C33: every gap detect_fvgs_vectorized returns with confirming index i has
\* detectionIndex i and, as endTime, the timestamp of the candle at index
\* min((i - 2) + 40, len(series) - 1), where i - 2 is the index of the candle
\* its startTime is taken from; so its startTime is before its endTime.
C33_EndTimeHorizon ==
    Vectorized =>
        \A k \in 1..Len(Returned) :
            LET i == Returned[k].detectionIndex
                horizon == Min((i - 2) + 40, Len(df) - 1)
            IN /\ i \in 2..(Len(df) - 1)
               /\ IsBullishFvg(df[i - 1], df[i], df[i + 1])
                      \/ IsBearishFvg(df[i - 1], df[i], df[i + 1])
               /\ Returned[k].startTime = df[i - 1].timestamp
               /\ Returned[k].endTime = df[horizon + 1].timestamp
               /\ Returned[k].startTime < Returned[k].endTime

\* a gap confirmed at index 2 of a series that goes on beyond index 40
C33_Witness ==
    /\ Vectorized
    /\ Len(df) > 42
    /\ Len(Returned) = 1
    /\ Returned[1].detectionIndex = 2
    /\ Returned[1].endTime = df[41].timestamp

-----------------------------------------------------------------------------
(* C34 *)

\* the candles at i - 2, i - 1, i open a gap
Qualifies(i) ==
    \/ IsBullishFvg(df[i - 1], df[i], df[i + 1])
    \/ IsBearishFvg(df[i - 1], df[i], df[i + 1])

\* C34: detect_fvgs_vectorized reports every qualifying index, adjacent ones
\* included, without suppressing or merging gaps; the list it returns is
\* ordered by strictly increasing detectionIndex, so it has at most one gap,
\* bullish or bearish and never both, per index.
C34_EveryIndexOnceInOrder ==
    Vectorized =>
        /\ \A i \in 2..(Len(df) - 1) :
               Qualifies(i) =>
                   Cardinality(GapsAt("bullish", i) \cup GapsAt("bearish", i))
                       = 1
        /\ Len(Returned)
               = Cardinality({i \in 2..(Len(df) - 1) : Qualifies(i)})
        /\ \A k \in 1..(Len(Returned) - 1) :
               Returned[k].detectionIndex < Returned[k + 1].detectionIndex

\* gaps at the adjacent indices 2 and 3, the second inside the first's range
C34_Witness ==
    /\ Vectorized
    /\ Len(df) = 4
    /\ Len(Returned) = 2
    /\ Returned[1].detectionIndex = 2
    /\ Returned[2].detectionIndex = 3
    /\ Returned[2].bottomPrice = Returned[1].topPrice

-----------------------------------------------------------------------------
(* C35 *)

\* what fill_missing_candles returned, and the cadence it was called with
Filled == filled[1].result

FilledCadence == FreqOf(filled[1].timeframe)

\* the times of the candles handed in
InputTimes == {df[i].DateTime : i \in 1..Len(df)}

\* the expected cadence points from the first to the last candle handed in
CadencePoints ==
    IF df = <<>> THEN {}
    ELSE {df[1].DateTime + k * FilledCadence :
              k \in 0..((df[Len(df)].DateTime - df[1].DateTime)
                           \div FilledCadence)}

\* the last candle handed in before the time t
PrecedingReal(t) ==
    df[CHOOSE i \in 1..Len(df) :
           /\ df[i].DateTime < t
           /\ \A j \in 1..Len(df) :
                  df[j].DateTime < t => df[j].DateTime <= df[i].DateTime]

OneCandlePerCadencePoint ==
    /\ Len(Filled) = Cardinality(CadencePoints)
    /\ {Filled[k].DateTime : k \in 1..Len(Filled)} = CadencePoints

OriginalsKept == \A i \in 1..Len(df) : \E k \in 1..Len(Filled) : Filled[k] = df[i]

SynthesizedFlat ==
    \A k \in 1..Len(Filled) :
        Filled[k].DateTime \notin InputTimes =>
            LET close == PrecedingReal(Filled[k].DateTime).Close
            IN /\ Filled[k].Open = close
               /\ Filled[k].High = close
               /\ Filled[k].Low = close
               /\ Filled[k].Close = close
               /\ Filled[k].Volume = 0

\* C35: fill_missing_candles returns one candle at every expected cadence
\* point from the first to the last candle handed in; each candle it
\* synthesizes has Open = High = Low = Close = the close of the nearest real
\* candle before it and Volume 0; every candle handed in is in the result
\* unchanged; and check_continuity does not call it: it returns its
\* diagnostics and leaves the series as it is, filled or not.
C35_FillAtCadenceKeepsOriginals ==
    [][/\ filled' # filled =>
              (OneCandlePerCadencePoint /\ OriginalsKept /\ SynthesizedFlat)'
       /\ continuity' # continuity => UNCHANGED <<df, filled>>]_vars

-----------------------------------------------------------------------------
(* C36 *)

\* C36: with one stream consumer and every command running between two
\* iterations of the loop, every reachable state has
\* 0 <= current_index <= total_candles, and the index at which an iteration
\* reads the candle it emits is below total_candles.
C36_CursorWithinTotal ==
    /\ 0 <= current_index
    /\ current_index <= total_candles
    /\ (last.op = "tick" /\ last.status = "candle") =>
           (last.arg < total_candles /\ last.arg >= 0)

\* the tick that read the last candle has put the cursor at total_candles
C36_Witness ==
    /\ last.op = "tick"
    /\ total_candles >= 2
    /\ last.arg = total_candles - 1
    /\ current_index = total_candles

-----------------------------------------------------------------------------
(* C37 *)

\* C37: with every command running between two iterations of the loop, every
\* reachable state has a cursor for exactly the timeframes that have a
\* loaded series, each cursor c has 0 <= c < length of its series, and the
\* primary series is present exactly if the M1 series is among the loaded
\* ones.
C37_CursorsMatchSeries ==
    /\ DOMAIN timeframe_indices = DOMAIN timeframe_data
    /\ \A tf \in DOMAIN timeframe_indices :
           /\ 0 <= timeframe_indices[tf]
           /\ timeframe_indices[tf] < Len(timeframe_data[tf])
    /\ replay_data # None <=> "M1" \in DOMAIN timeframe_data

\* the tick that read the last M1 candle has left the M1 cursor on it, next
\* to the cursors of coarser series
C37_Witness ==
    /\ last.op = "tick"
    /\ "M1" \in DOMAIN timeframe_indices
    /\ "M5" \in DOMAIN timeframe_indices
    /\ timeframe_indices["M1"] = 1
    /\ Len(timeframe_data["M1"]) = 2
    /\ current_index = 2

-----------------------------------------------------------------------------
(* C38 *)

\* the only event of a stream that found nothing loaded
OnlyNotLoaded == <<[error |-> "No replay data loaded"]>>

\* C38: a stream whose generator starts while no primary series is loaded,
\* before any start, after a stop or after a failed start, emits exactly one
\* event, the error 'No replay data loaded', and ends: it emits no heartbeat
\* and no finished event, and it changes no session state.
C38_NotLoadedStreamOnlyErrs ==
    [][/\ (pc = "start" /\ replay_data = None /\ pc' \notin {"start", "closed"})
           => /\ events' = OnlyNotLoaded
              /\ pc' = "done"
              /\ UNCHANGED <<loaded_data, session>>
       /\ (pc = "done" /\ events = OnlyNotLoaded /\ pc' = pc)
           => events' = events]_vars

\* the stream was opened after a start that failed for lack of M1 candles
\* and left coarser series loaded
C38_Witness ==
    /\ pc = "done"
    /\ events = OnlyNotLoaded
    /\ last.op = "stream_start"
    /\ replay_data = None
    /\ DOMAIN timeframe_data # {}

-----------------------------------------------------------------------------
(* C39 *)

\* what detect_fvgs_vectorized returns for the series detect_fvgs was given
VectorizedValue == DetectFvgsVectorized(df).value

\* C39: for every series of valid candles detect_fvgs and
\* detect_fvgs_vectorized return the same sequence of gaps, with the same
\* type, topPrice, bottomPrice, startTime, endTime, status and clearedIndex;
\* they differ only in detectionIndex, which detect_fvgs records one lower.
C39_EntryPointsAgree ==
    (fvgs # None /\ fvgs[1].entry = "detect_fvgs") =>
        /\ Len(Returned) = Len(VectorizedValue)
        /\ \A k \in 1..Len(Returned) :
               LET a == Returned[k]
                   b == VectorizedValue[k]
               IN /\ a.type = b.type
                  /\ a.topPrice = b.topPrice
                  /\ a.bottomPrice = b.bottomPrice
                  /\ a.startTime = b.startTime
                  /\ a.endTime = b.endTime
                  /\ a.status = b.status
                  /\ "clearedIndex" \in DOMAIN a <=> "clearedIndex" \in DOMAIN b
                  /\ "clearedIndex" \in DOMAIN a =>
                         a.clearedIndex = b.clearedIndex
                  /\ a.detectionIndex = b.detectionIndex - 1

====
